---- MODULE Spec2Model ----
(***************************************************************************)
(* A model of the recursive crawl engine of utils/helpers.py               *)
(* (generate_urls, process_directory, fetch_url and their helpers) and of  *)
(* the run control of crawler/views.py (crawler_running_event).            *)
(*                                                                         *)
(* URLs and anchor texts are small naturals whose order is the order of    *)
(* the strings they stand for, so that sorted() can be computed.           *)
(***************************************************************************)
EXTENDS Naturals, Integers, Sequences, FiniteSets, TLC

\* ------------------------------------------------------------ bounds
\* The largest MAX_WORKERS, MAX_DEPTH and MAX_URLS a run is configured with.
MaxWorkers == 2
MaxDepth == 1
MaxUrls == 4
\* The largest TIMEOUT_SECONDS a run is configured with.
MaxTimeout == 0
\* backoff's max_tries of fetch_url.
max_tries == 3

\* ------------------------------------------------------------ the web
\* The URLs of the modelled web, the anchor texts, and what is in the files.
Urls == 1 .. 10
\* "" < "Research Lab" < "Startup Incubator"
Anchors == 0 .. 2
None == [none |-> TRUE, anchors |-> {}]
EmptyResult == << {}, {} >>

\* urlparse / tldextract of each URL. The URLs, in the order of their
\* strings, are
\*   1 https://cs.uni.edu             2 https://hub.com
\*   3 https://www.uni.edu/research   4 https://www.uni.edu/startup
\*   5 https://www.uni.edu/sys/login
\*   6 https://www.uni.edu/sys/login?next=home
\*   7 https://www.uni.edu/view?file=paper.pdf
\*   8 https://www.uni.edu/work/paper.PDF
\*   9 javascript:void(0)            10 mailto:lab@uni.edu
\* so that 2 is on a domain that is no university's. The URLs from 11 on,
\* https://www.uni.edu/page-01 and so on, are found in a long frontier file
\* only, in their order among themselves. path_end and query_end
\* are the last characters of the path and of the query, as far as the
\* pattern of is_valid_url tells them apart ("" when there is none).
UrlParts(u) ==
    [scheme |-> IF u = 9 THEN "javascript" ELSE IF u = 10 THEN "mailto" ELSE "https",
     netloc |-> CASE u = 2 -> "hub.com" [] u = 1 -> "cs.uni.edu"
                  [] u \in {9, 10} -> "" [] OTHER -> "www.uni.edu",
     subdomain |-> CASE u = 1 -> "cs" [] u \in {2, 9, 10} -> "" [] OTHER -> "www",
     registered_domain |-> CASE u = 2 -> "hub.com" [] u \in {9, 10} -> ""
                             [] OTHER -> "uni.edu",
     path_end |-> CASE u \in {1, 2} -> "" [] u \in {5, 6} -> "login"
                    [] u = 8 -> ".PDF" [] u = 9 -> "void(0)"
                    [] u = 10 -> "uni.edu" [] OTHER -> "word",
     query_end |-> CASE u = 6 -> "home" [] u = 7 -> ".pdf" [] OTHER -> ""]

\* data/universities.txt when readable.
DomainFileDomains == {"uni.edu"}
\* data/urls.txt as an earlier run left it.
OldFrontier == << [url |-> 3, anchor_text |-> 1] >>
FileStates == {"missing", "unreadable", "empty", "ok"}
HttpOutcomes == {"ok", "404", "http_error", "timeout", "connection_error"}
\* What a server answers to the successive attempts of one fetch during a
\* traversal: the same every time, or a timeout first and the page after it.
ServerScripts ==
    { [i \in 1 .. max_tries |-> o] : o \in HttpOutcomes } \cup
    { [i \in 1 .. max_tries |-> IF i = 1 THEN "timeout" ELSE "ok"] }

VARIABLES
    config,                 \* REQUEST_TIMEOUT .. TIMEOUT_SECONDS of helpers.py
    crawler_running_event,  \* utils.state.crawler_running_event
    domains_file,           \* state of data/universities.txt
    seeds_file,             \* state of data/potential_directories.txt
    gen_pc,                 \* where generate_urls is
    university_domains,
    directory_urls,         \* seeds not yet submitted to the executor
    tasks,                  \* the process_directory calls, by path from the seed
    visited_urls,
    elapsed,                \* time.time() - start_time
    merged_urls,
    files,                  \* the files urls.tmp and data/urls.txt
    old_frontier,           \* data/urls.txt as it was when the run started
    log,                    \* logging.error records of generate_urls
    fetched,                \* per URL, the fetches issued for it in this run
    fetch,                  \* one fetch_url call, attempt by attempt
    online_learner,         \* workflow.online_learner: model, scaler, total_updates
    models_dir,             \* the files of models/
    calls,                  \* per thread, its call of online_learner in progress
    tally,                  \* calls started, returned and raised in this process
    state,                  \* the State of the per-page workflow
    node,                   \* the node of the graph that runs next
    database,               \* the URLs of the Entity rows
    superstep,              \* the supersteps of the graph run so far
    web,                    \* which pages the web serves during the run
    config_file,            \* data/config.json
    categorized,            \* one categorize_urls_with_semantics call
    requests,               \* the requests to the views, each at its line
    threads                 \* the threads that run_workflow_with_stop runs in

learner_vars == << online_learner, models_dir, calls, tally >>
workflow_vars == << state, node, database, superstep >>
views_vars == << requests, threads >>
vars == << config, crawler_running_event, domains_file, seeds_file, gen_pc,
           university_domains, directory_urls, tasks, visited_urls, elapsed,
           merged_urls, files, old_frontier, log, fetched, fetch, web,
           config_file, categorized, learner_vars, workflow_vars, views_vars >>
crawl_vars == << config, crawler_running_event, domains_file, seeds_file, gen_pc,
                 university_domains, directory_urls, tasks, visited_urls,
                 elapsed, merged_urls, files, old_frontier, log, fetched, fetch,
                 web, config_file, categorized >>

MAX_WORKERS == config.MAX_WORKERS
MAX_DEPTH == config.MAX_DEPTH
MAX_URLS == config.MAX_URLS
TIMEOUT_SECONDS == config.TIMEOUT_SECONDS

Configs ==
    [MAX_WORKERS : 1 .. MaxWorkers, MAX_DEPTH : 0 .. MaxDepth,
     MAX_URLS : 1 .. MaxUrls, TIMEOUT_SECONDS : 0 .. MaxTimeout]

Absent == [exists |-> FALSE, lines |-> << >>]
File(lines) == [exists |-> TRUE, lines |-> lines]

\* The (href, anchor text) pairs of the <a> elements of each page, the href
\* already joined to the base URL, without fragment and trailing slash. The
\* run crawls the campus web, or a web whose first seed is a page of links
\* of every kind, or a ring of three pages that link to each other, or the
\* network is down and no request is answered.
Webs == {"campus", "links", "ring", "down"}
PageAnchors(u) ==
    CASE web = "campus" ->
           CASE u = 1 -> { <<3, 1>>, <<4, 2>>, <<5, 1>> }
             [] u = 2 -> { <<3, 2>> }
             [] u = 3 -> { <<1, 0>> }
             [] OTHER -> {}
      [] web = "links" ->
           CASE u = 1 -> { <<3, 1>>, <<5, 1>>, <<6, 1>>, <<7, 1>>, <<8, 1>>,
                           <<9, 2>>, <<10, 2>> }
             [] OTHER -> {}
      [] web = "ring" ->
           CASE u = 1 -> { <<3, 1>>, <<4, 2>> }
             [] u = 3 -> { <<4, 1>>, <<1, 1>> }
             [] u = 4 -> { <<3, 2>>, <<1, 0>> }
             [] OTHER -> {}
      [] OTHER -> {}
\* What a request of the scrapers to a page can give: an answer or none.
Answers == IF web = "down" THEN {FALSE} ELSE BOOLEAN

\* data/potential_directories.txt when readable: the two seeds of the
\* campus web, or the page of links as the single seed.
DirectoryFileUrls == IF web = "campus" THEN {1, 2} ELSE {1}

\* ------------------------------------------------------ load_config
\* data/config.json is missing, is no JSON, or holds the five options.
ConfigContents ==
    [REQUEST_TIMEOUT : {10, 15, 15000}, MAX_WORKERS : {1, 4, 5},
     MAX_DEPTH : {0, 3, 4}, MAX_URLS : {1, 30, 100},
     TIMEOUT_SECONDS : {30, 3600}]
NoConfigFile == [state |-> "missing"]
ConfigFileOf(c) == [state |-> "ok", content |-> c]
ConfigFiles ==
    {NoConfigFile, [state |-> "invalid"]} \cup
    { ConfigFileOf(c) : c \in ConfigContents }
\* A faulty variant: the defaults of the parameters view (views.py lines
\* 51-55) in place of those of helpers.py.
load_config_view_defaults(file) ==
    IF file.state = "missing"
    THEN [REQUEST_TIMEOUT |-> 15000, MAX_WORKERS |-> 4, MAX_DEPTH |-> 3,
          MAX_URLS |-> 100, TIMEOUT_SECONDS |-> 30]
    ELSE IF file.state = "invalid" THEN [raised |-> "JSONDecodeError"]
    ELSE file.content
\* load_config, lines 20-32: the content of the file, the defaults when
\* the file is not found; another error is not caught.
load_config(file) ==
    IF file.state = "missing"
    THEN [REQUEST_TIMEOUT |-> 15, MAX_WORKERS |-> 5, MAX_DEPTH |-> 4,
          MAX_URLS |-> 30, TIMEOUT_SECONDS |-> 3600]
    ELSE IF file.state = "invalid" THEN [raised |-> "JSONDecodeError"]
    ELSE file.content
\* helpers.py before line 41 has run, and after it.
NotLoaded == [loaded |-> FALSE]
Loaded == "MAX_URLS" \in DOMAIN config
\* Lines 41-46: the module is imported, and config is what load_config gives.
LoadConfig ==
    /\ "loaded" \in DOMAIN config
    /\ config' = load_config(config_file)
    /\ UNCHANGED << crawler_running_event, domains_file, seeds_file, gen_pc,
                    university_domains, directory_urls, tasks, visited_urls,
                    elapsed, merged_urls, files, old_frontier, log, fetched,
                    fetch, web, config_file, categorized,
                    learner_vars, workflow_vars, views_vars >>
\* Line 104: SESSION.get(url, timeout=REQUEST_TIMEOUT); requests takes the
\* timeout in seconds.
REQUEST_TIMEOUT == config.REQUEST_TIMEOUT
request_timeout_ms == REQUEST_TIMEOUT * 1000

\* ------------------------------------------------------ pure functions
\* is_valid_url, lines 131-138: http(s), a host, and no match of
\* (login|signup|auth|\.pdf|\.docx?)$ with re.I, which is searched in the
\* whole URL: at the end of the query if there is one, else of the path,
\* else of the host.
Lower(end) == IF end = ".PDF" THEN ".pdf" ELSE end
Blocklist == {"login", "signup", "auth", ".pdf", ".doc", ".docx"}
UrlEnd(p) ==
    IF p.query_end # "" THEN p.query_end
    ELSE IF p.path_end # "" THEN p.path_end
    ELSE p.registered_domain
is_valid_url(u) ==
    /\ UrlParts(u).scheme \in {"http", "https"}
    /\ UrlParts(u).netloc # ""
    /\ Lower(UrlEnd(UrlParts(u))) \notin Blocklist

\* extract_links: nothing for no html, else the valid links of the page.
extract_links(html, base_url) ==
    IF html.none THEN {}
    ELSE { l \in html.anchors : is_valid_url(l[1]) }

\* is_university_domain: the registered domain, or subdomain.registered_domain.
is_university_domain(u, domains) ==
    LET p == UrlParts(u)
        comparison_domains ==
            {p.registered_domain} \cup
            (IF p.subdomain # "" THEN {p.netloc} ELSE {})
    IN (comparison_domains \cap domains) # {}

\* The text spaCy embeds: the anchor text, or the URL when there is none.
Context(l) == IF l[2] # 0 THEN [anchor |-> l[2]] ELSE [url |-> l[1]]

\* Cosine similarities (times 10) of a context with lab_embedding and
\* startup_embedding; a context with a zero vector has none.
HasVector(c) == IF "anchor" \in DOMAIN c THEN TRUE ELSE c.url # 1
lab_similarity(c) ==
    IF "anchor" \in DOMAIN c THEN (IF c.anchor = 1 THEN 8 ELSE 3) ELSE 6
startup_similarity(c) ==
    IF "anchor" \in DOMAIN c THEN (IF c.anchor = 2 THEN 7 ELSE 2) ELSE 6

\* categorize_urls_with_semantics: << lab_urls, startup_urls >>.
IsLab(l, domains) ==
    /\ HasVector(Context(l))
    /\ is_university_domain(l[1], domains)
    /\ lab_similarity(Context(l)) > startup_similarity(Context(l))
    /\ lab_similarity(Context(l)) > 5
\* A faulty variant: the elif branch with its threshold only.
IsStartupAboveThreshold(l, domains) ==
    /\ HasVector(Context(l))
    /\ ~IsLab(l, domains)
    /\ startup_similarity(Context(l)) > 5
IsStartup(l, domains) ==
    /\ HasVector(Context(l))
    /\ ~IsLab(l, domains)
    /\ startup_similarity(Context(l)) > lab_similarity(Context(l))
    /\ startup_similarity(Context(l)) > 5
categorize_urls_with_semantics(links, domains) ==
    << { l \in links : IsLab(l, domains) },
       { l \in links : IsStartup(l, domains) } >>

\* sorted(merged_urls): by URL, then by anchor text.
TupleLess(p, q) == p[1] < q[1] \/ (p[1] = q[1] /\ p[2] < q[2])
RECURSIVE sorted(_)
sorted(S) ==
    IF S = {} THEN << >>
    ELSE LET m == CHOOSE p \in S : \A q \in S \ {p} : TupleLess(p, q)
         IN << m >> \o sorted(S \ {m})

\* A faulty variant: the HTTPError of raise_for_status is not caught in the
\* body, so that it reaches backoff.
fetch_url_body_raising_http_error(url, o) ==
    CASE o = "ok" -> [raised |-> FALSE, value |-> << url, [none |-> FALSE, anchors |-> PageAnchors(url)] >>]
      [] o = "404" -> [raised |-> FALSE, value |-> << url, None >>]
      [] o = "http_error" -> [raised |-> TRUE, value |-> << url, None >>]
      [] OTHER -> [raised |-> FALSE, value |-> << url, None >>]
\* The body of fetch_url for one SESSION.get whose outcome is o: every
\* exception is caught inside the function, which returns (url, None).
Text(url) == [none |-> FALSE, anchors |-> PageAnchors(url)]
fetch_url_body(url, o) ==
    CASE o = "ok" -> [raised |-> FALSE, value |-> << url, Text(url) >>]
      [] o = "404" -> [raised |-> FALSE, value |-> << url, None >>]
      [] o = "http_error" -> [raised |-> FALSE, value |-> << url, None >>]
      [] OTHER -> [raised |-> FALSE, value |-> << url, None >>]

\* backoff.on_exception: call again while the call raises and tries are left.
RECURSIVE fetch_url_from(_, _, _)
fetch_url_from(url, script, n) ==
    LET r == fetch_url_body(url, script[n])
    IN IF r.raised /\ n < max_tries
       THEN fetch_url_from(url, script, n + 1)
       ELSE [attempts |-> n, raised |-> r.raised, value |-> r.value]
fetch_url(url, script) == fetch_url_from(url, script, 1)

\* ------------------------------------------------- process_directory
\* A call is named by the path of URLs from its seed; it runs in the
\* executor of its parent (of generate_urls for a seed).
Url(t) == t[Len(t)]
Pool(t) == SubSeq(t, 1, Len(t) - 1)
Children(p) == { t \in DOMAIN tasks : Len(t) = Len(p) + 1 /\ Pool(t) = p }
Finished(t) == tasks[t].pc \in {"done", "raised"}
\* A faulty variant: one pool of worker threads for every executor, so that
\* the calls running anywhere count against MAX_WORKERS.
RunningAnywhere(p) == { t \in DOMAIN tasks : tasks[t].pc # "queued" /\ ~Finished(t) }
\* The calls that hold a worker thread of the executor of p.
Running(p) == { t \in Children(p) : tasks[t].pc # "queued" /\ ~Finished(t) }

NewTask(depth, ticket) ==
    [pc |-> "queued", depth |-> depth, ticket |-> ticket, own |-> EmptyResult,
     sublinks |-> {}, result |-> EmptyResult]

\* A faulty variant: the entry check without the deadline.
StopConditionNoDeadline(url, depth) ==
    \/ depth > MAX_DEPTH
    \/ url \in visited_urls
    \/ Cardinality(visited_urls) >= MAX_URLS
\* Line 168: the stop conditions checked on entry.
StopCondition(url, depth) ==
    \/ depth > MAX_DEPTH
    \/ url \in visited_urls
    \/ Cardinality(visited_urls) >= MAX_URLS
    \/ elapsed > TIMEOUT_SECONDS

\* A faulty variant: the comprehension without the budget.
SubmitConditionNoBudget == elapsed <= TIMEOUT_SECONDS
\* Lines 198: the condition of the comprehension that submits the children.
SubmitCondition == Cardinality(visited_urls) < MAX_URLS /\ elapsed <= TIMEOUT_SECONDS
\* Line 194.
MayRecurse(depth, sublinks) == depth + 1 <= MAX_DEPTH /\ sublinks # {}
\* A faulty variant: the child is submitted without its depth, which then
\* takes the default of the parameter.
ChildDepthDefault(depth) == 0
\* Line 197: the depth a child is called with.
ChildDepth(depth) == depth + 1

\* A worker thread of the executor takes the oldest queued call, which
\* evaluates line 168 and returns at once when a stop condition holds.
Enter(t) ==
    /\ tasks[t].pc = "queued"
    /\ Cardinality(Running(Pool(t))) < MAX_WORKERS
    /\ \A o \in Children(Pool(t)) :
          tasks[o].pc = "queued" => tasks[o].ticket >= tasks[t].ticket
    /\ tasks' = [tasks EXCEPT
          ![t].pc = IF StopCondition(Url(t), tasks[t].depth) THEN "done" ELSE "add"]
    /\ UNCHANGED << config, crawler_running_event, domains_file, seeds_file,
                    gen_pc, university_domains, directory_urls, visited_urls,
                    elapsed, merged_urls, files, old_frontier, log, fetched, fetch,
                    web, config_file, categorized,
                    learner_vars, workflow_vars, views_vars >>

\* A faulty variant: each call keeps a visited set of its own.
visited_urls_own(url) == {url}
\* Line 173: visited_urls.add(url) on the set that the calls share.
visited_urls_add(url) == visited_urls \cup {url}
\* Lines 172-178: visited_urls.add(url), then the fetch is issued.
AddAndFetch(t) ==
    /\ tasks[t].pc = "add"
    /\ visited_urls' = visited_urls_add(Url(t))
    /\ fetched' = [fetched EXCEPT ![Url(t)] = @ + 1]
    /\ tasks' = [tasks EXCEPT ![t].pc = "fetch"]
    /\ UNCHANGED << config, crawler_running_event, domains_file, seeds_file,
                    gen_pc, university_domains, directory_urls, elapsed,
                    merged_urls, files, old_frontier, log, fetch,
                    web, config_file, categorized,
                    learner_vars, workflow_vars, views_vars >>

\* Lines 178-194: fetch_url returns; without html the call returns, else the
\* links are extracted and categorized (which may raise) and the sublinks
\* not yet visited are taken.
AfterFetch(t, script, raises) ==
    LET html == fetch_url(Url(t), script).value[2]
        links_with_anchor == extract_links(html, Url(t))
        own == categorize_urls_with_semantics(links_with_anchor, university_domains)
        sublinks == { l[1] : l \in links_with_anchor } \ visited_urls
    IN  IF html.none
        THEN [tasks[t] EXCEPT !.pc = "done"]
        ELSE IF raises
        THEN [tasks[t] EXCEPT !.pc = "raised"]
        ELSE IF MayRecurse(tasks[t].depth, sublinks)
        THEN [tasks[t] EXCEPT !.pc = "submit", !.own = own, !.sublinks = sublinks]
        ELSE [tasks[t] EXCEPT !.pc = "done", !.own = own, !.result = own]

FetchReturns(t) ==
    /\ tasks[t].pc = "fetch"
    /\ \E script \in ServerScripts, raises \in BOOLEAN :
          tasks' = [tasks EXCEPT ![t] = AfterFetch(t, script, raises)]
    /\ UNCHANGED << config, crawler_running_event, domains_file, seeds_file,
                    gen_pc, university_domains, directory_urls, visited_urls,
                    elapsed, merged_urls, files, old_frontier, log, fetched, fetch,
                    web, config_file, categorized,
                    learner_vars, workflow_vars, views_vars >>

\* Lines 196-199: one step of the comprehension: the next sub_url is
\* submitted to this call's executor if the condition holds, else skipped.
SubmitChild(t) ==
    /\ tasks[t].pc = "submit"
    /\ \E sub_url \in tasks[t].sublinks :
          LET rest == tasks[t].sublinks \ {sub_url}
              c == Append(t, sub_url)
              me == [tasks[t] EXCEPT !.sublinks = rest,
                                     !.pc = IF rest = {} THEN "join" ELSE "submit"]
          IN  tasks' =
                IF SubmitCondition
                THEN [x \in DOMAIN tasks \cup {c} |->
                        IF x = c THEN NewTask(ChildDepth(tasks[t].depth),
                                              Cardinality(Children(t)))
                        ELSE IF x = t THEN me ELSE tasks[x]]
                ELSE [tasks EXCEPT ![t] = me]
    /\ UNCHANGED << config, crawler_running_event, domains_file, seeds_file,
                    gen_pc, university_domains, directory_urls, visited_urls,
                    elapsed, merged_urls, files, old_frontier, log, fetched, fetch,
                    web, config_file, categorized,
                    learner_vars, workflow_vars, views_vars >>

\* Lines 200-209: the results of the children that returned are merged, the
\* exception of a child that raised is caught and logged.
\* A faulty variant: the results of the children are not merged.
MergeResultsOwnOnly(own, futures) == own
MergeResults(own, futures) ==
    << own[1] \cup UNION { tasks[c].result[1] : c \in { f \in futures : tasks[f].pc = "done" } },
       own[2] \cup UNION { tasks[c].result[2] : c \in { f \in futures : tasks[f].pc = "done" } } >>
ErrorsLogged(futures, message) ==
    IF \E f \in futures : tasks[f].pc = "raised" THEN {message} ELSE {}
\* A faulty variant: future.result() outside the try, so that the exception
\* of a child ends the parent.
JoinOutcomeReraising(t) ==
    IF \E c \in Children(t) : tasks[c].pc = "raised"
    THEN [tasks[t] EXCEPT !.pc = "raised"]
    ELSE [tasks[t] EXCEPT !.pc = "done",
                          !.result = MergeResults(tasks[t].own, Children(t))]
JoinOutcome(t) ==
    [tasks[t] EXCEPT !.pc = "done", !.result = MergeResults(tasks[t].own, Children(t))]

JoinChildren(t) ==
    /\ tasks[t].pc = "join"
    /\ \A c \in Children(t) : Finished(c)
    /\ tasks' = [tasks EXCEPT ![t] = JoinOutcome(t)]
    /\ log' = log \cup ErrorsLogged(Children(t), "Error processing sublink")
    /\ UNCHANGED << config, crawler_running_event, domains_file, seeds_file,
                    gen_pc, university_domains, directory_urls, visited_urls,
                    elapsed, merged_urls, files, old_frontier, fetched, fetch,
                    web, config_file, categorized,
                    learner_vars, workflow_vars, views_vars >>

\* ------------------------------------------------------ generate_urls
NoTasks == [t \in {} |-> NewTask(0, 0)]
Active == gen_pc \notin {"idle", "stopped", "returned", "raised", "killed"}

\* views.run_crawler: rejected while the event is set; else the event is
\* set and the crawl thread started.
run_crawler ==
    /\ gen_pc = "idle"
    /\ ~crawler_running_event
    /\ crawler_running_event' = TRUE
    /\ gen_pc' = "run_workflow"
    /\ UNCHANGED << config, domains_file, seeds_file, university_domains,
                    directory_urls, tasks, visited_urls, elapsed, merged_urls,
                    files, old_frontier, log, fetched, fetch,
                    web, config_file, categorized,
                    learner_vars, workflow_vars, views_vars >>

\* scheduler.run_workflow, lines 17-24: it returns if the event is cleared,
\* else it calls generate_urls, which sets start_time.
run_workflow ==
    /\ gen_pc = "run_workflow"
    /\ gen_pc' = IF crawler_running_event THEN "load_domains" ELSE "stopped"
    /\ elapsed' = 0
    /\ UNCHANGED << config, crawler_running_event, domains_file, seeds_file,
                    university_domains, directory_urls, tasks, visited_urls,
                    merged_urls, files, old_frontier, log, fetched, fetch,
                    web, config_file, categorized,
                    learner_vars, workflow_vars, views_vars >>

\* views.stop_crawler: clears the event when it is set.
stop_crawler ==
    /\ crawler_running_event
    /\ crawler_running_event' = FALSE
    /\ UNCHANGED << config, domains_file, seeds_file, gen_pc, university_domains,
                    directory_urls, tasks, visited_urls, elapsed, merged_urls,
                    files, old_frontier, log, fetched, fetch,
                    web, config_file, categorized,
                    learner_vars, workflow_vars, views_vars >>

\* load_university_domains: the set of the file's domains, the empty set
\* when the file is not found; any other OSError propagates.
load_university_domains ==
    CASE domains_file = "ok" -> [raised |-> FALSE, value |-> DomainFileDomains]
      [] domains_file = "empty" -> [raised |-> FALSE, value |-> {}]
      [] domains_file = "missing" -> [raised |-> FALSE, value |-> {}]
      [] OTHER -> [raised |-> TRUE, value |-> {}]

\* A faulty variant: no abort on an empty domain set.
AfterLoadDomainsNoAbort(r) ==
    IF r.raised THEN [pc |-> "raised", log |-> {"Critical error in URL generation"}]
    ELSE [pc |-> "load_seeds", log |-> {}]
\* Lines 217-221 and 259-261.
AfterLoadDomains(r) ==
    IF r.raised THEN [pc |-> "raised", log |-> {"Critical error in URL generation"}]
    ELSE IF r.value = {}
    THEN [pc |-> "returned", log |-> {"Aborting due to missing university domains"}]
    ELSE [pc |-> "load_seeds", log |-> {}]

LoadDomains ==
    /\ gen_pc = "load_domains"
    /\ LET r == load_university_domains
           a == AfterLoadDomains(r)
       IN /\ university_domains' = r.value
          /\ gen_pc' = a.pc
          /\ log' = log \cup a.log
    /\ UNCHANGED << config, crawler_running_event, domains_file, seeds_file,
                    directory_urls, tasks, visited_urls, elapsed, merged_urls,
                    files, old_frontier, fetched, fetch,
                    web, config_file, categorized,
                    learner_vars, workflow_vars, views_vars >>

\* A faulty variant: FileNotFoundError is not caught apart, and reaches the
\* outer handler like any other exception.
AfterLoadSeedsRaising ==
    CASE seeds_file = "ok" ->
           [pc |-> "submit", urls |-> DirectoryFileUrls, log |-> {}]
      [] seeds_file = "empty" -> [pc |-> "join", urls |-> {}, log |-> {}]
      [] OTHER ->
           [pc |-> "raised", urls |-> {},
            log |-> {"Critical error in URL generation"}]
\* Lines 223-228 and 259-261: open and read data/potential_directories.txt.
AfterLoadSeeds ==
    CASE seeds_file = "ok" ->
           [pc |-> "submit", urls |-> DirectoryFileUrls, log |-> {}]
      [] seeds_file = "empty" -> [pc |-> "join", urls |-> {}, log |-> {}]
      [] seeds_file = "missing" ->
           [pc |-> "returned", urls |-> {},
            log |-> {"data/potential_directories.txt not found"}]
      [] OTHER ->
           [pc |-> "raised", urls |-> {},
            log |-> {"Critical error in URL generation"}]

LoadSeeds ==
    /\ gen_pc = "load_seeds"
    /\ LET a == AfterLoadSeeds
       IN /\ directory_urls' = a.urls
          /\ gen_pc' = a.pc
          /\ log' = log \cup a.log
    /\ visited_urls' = {}
    /\ UNCHANGED << config, crawler_running_event, domains_file, seeds_file,
                    university_domains, tasks, elapsed, merged_urls, files, old_frontier, fetched, fetch,
                    web, config_file, categorized,
                    learner_vars, workflow_vars, views_vars >>

\* Lines 235-238: one step of the comprehension that submits the seeds.
SubmitSeed ==
    /\ gen_pc = "submit"
    /\ \E url \in directory_urls :
          /\ tasks' = [x \in DOMAIN tasks \cup { << url >> } |->
                         IF x = << url >>
                         THEN NewTask(0, Cardinality(Children(<< >>)))
                         ELSE tasks[x]]
          /\ directory_urls' = directory_urls \ {url}
          /\ gen_pc' = IF directory_urls = {url} THEN "join" ELSE "submit"
    /\ UNCHANGED << config, crawler_running_event, domains_file, seeds_file,
                    university_domains, visited_urls, elapsed, merged_urls,
                    files, old_frontier, log, fetched, fetch,
                    web, config_file, categorized,
                    learner_vars, workflow_vars, views_vars >>

\* Lines 239-248: the seeds' results are merged, a seed's exception is
\* caught and logged.
MergedUrls ==
    LET all == MergeResults(EmptyResult, Children(<< >>))
    IN all[1] \cup all[2]

JoinSeeds ==
    /\ gen_pc = "join"
    /\ \A c \in Children(<< >>) : Finished(c)
    /\ merged_urls' = MergedUrls
    /\ log' = log \cup ErrorsLogged(Children(<< >>), "Error processing")
    /\ gen_pc' = "open_tmp"
    /\ UNCHANGED << config, crawler_running_event, domains_file, seeds_file,
                    university_domains, directory_urls, tasks, visited_urls,
                    elapsed, files, old_frontier, fetched, fetch,
                    web, config_file, categorized,
                    learner_vars, workflow_vars, views_vars >>

\* Lines 252-257: urls.tmp is opened for writing, written line by line in
\* sorted order, closed, and renamed to data/urls.txt.
\* A faulty variant: the frontier file itself is opened for writing.
temp_file_in_place == "data/urls.txt"
temp_file == "urls.tmp"
Line(p) == [url |-> p[1], anchor_text |-> p[2]]
\* A faulty variant: the lines in descending order.
FrontierLinesDescending(S) ==
    [i \in 1 .. Cardinality(S) |-> Line(sorted(S)[Cardinality(S) + 1 - i])]
FrontierLines(S) == [i \in 1 .. Cardinality(S) |-> Line(sorted(S)[i])]
urls_txt == files["data/urls.txt"]

\* open(temp_file, 'w'). The executor and its futures are released when the
\* with block before it is left.
OpenTmp ==
    /\ gen_pc = "open_tmp"
    /\ files' = [files EXCEPT ![temp_file] = File(<< >>)]
    /\ gen_pc' = "write"
    /\ tasks' = NoTasks
    /\ UNCHANGED << config, crawler_running_event, domains_file, seeds_file,
                    university_domains, directory_urls, visited_urls,
                    elapsed, merged_urls, old_frontier, log, fetched, fetch,
                    web, config_file, categorized,
                    learner_vars, workflow_vars, views_vars >>

\* f.write of the next line.
WriteLine ==
    /\ gen_pc = "write"
    /\ Len(files[temp_file].lines) < Cardinality(merged_urls)
    /\ files' = [files EXCEPT ![temp_file].lines =
                    Append(@, FrontierLines(merged_urls)[Len(@) + 1])]
    /\ UNCHANGED << config, crawler_running_event, domains_file, seeds_file,
                    gen_pc, university_domains, directory_urls, tasks,
                    visited_urls, elapsed, merged_urls, old_frontier, log,
                    fetched, fetch,
                    web, config_file, categorized,
                    learner_vars, workflow_vars, views_vars >>

\* os.replace(temp_file, 'data/urls.txt') once every line is written.
Replace ==
    /\ gen_pc = "write"
    /\ Len(files[temp_file].lines) = Cardinality(merged_urls)
    /\ files' = [files EXCEPT !["data/urls.txt"] = files[temp_file],
                              ![temp_file] = Absent]
    /\ gen_pc' = "replaced"
    /\ UNCHANGED << config, crawler_running_event, domains_file, seeds_file,
                    university_domains, directory_urls, tasks, visited_urls,
                    elapsed, merged_urls, old_frontier, log, fetched, fetch,
                    web, config_file, categorized,
                    learner_vars, workflow_vars, views_vars >>

\* Line 257: the success is logged and generate_urls returns.
Return ==
    /\ gen_pc = "replaced"
    /\ gen_pc' = "returned"
    /\ UNCHANGED << config, crawler_running_event, domains_file, seeds_file,
                    university_domains, directory_urls, tasks, visited_urls,
                    elapsed, merged_urls, files, old_frontier, log, fetched,
                    fetch,
                    web, config_file, categorized,
                    learner_vars, workflow_vars, views_vars >>

\* The process is killed: its memory is gone, the files stay as they are.
Kill ==
    /\ Active
    /\ gen_pc' = "killed"
    /\ tasks' = NoTasks
    /\ visited_urls' = {}
    /\ directory_urls' = {}
    /\ university_domains' = {}
    /\ UNCHANGED << config, crawler_running_event, domains_file, seeds_file,
                    elapsed, merged_urls, files, old_frontier, log, fetched, fetch,
                    web, config_file, categorized,
                    learner_vars, workflow_vars, views_vars >>

\* A second passes while the traversal, which reads the clock, runs. Past
\* the deadline the clock is no longer followed: every comparison with
\* TIMEOUT_SECONDS has the same result from then on.
Tick ==
    /\ gen_pc \in {"submit", "join"}
    /\ elapsed <= TIMEOUT_SECONDS
    /\ elapsed' = elapsed + 1
    /\ UNCHANGED << config, crawler_running_event, domains_file, seeds_file,
                    gen_pc, university_domains, directory_urls, tasks,
                    visited_urls, merged_urls, files, old_frontier, log, fetched,
                    fetch,
                    web, config_file, categorized,
                    learner_vars, workflow_vars, views_vars >>

\* ---------------------------------------------- OnlineLearningCrawler
\* extract_features reads the strings of the URLs (listed at UrlParts) and
\* of the anchor texts: 0 "", 1 "Research Lab", 2 "Startup Incubator", and
\* 3 "initial", the anchor text of a quick scrape.
\* parent_relevance and probabilities are in tenths (5 is 0.5).
HIGH_PRIORITY_WEIGHT == 5
NumFeatures == 9
Zeros == [i \in 1 .. NumFeatures |-> 0]

\* Lines 55-67: the counts of the keywords in the URL and the anchor text,
\* and the other features of the URL.
general_keyword_count(url) == IF url = 4 THEN 1 ELSE 0
general_anchor_count(anchor_text) == IF anchor_text = 2 THEN 1 ELSE 0
high_priority_keyword_count(url) ==
    HIGH_PRIORITY_WEIGHT * (IF url = 3 THEN 1 ELSE 0)
high_priority_anchor_count(anchor_text) ==
    HIGH_PRIORITY_WEIGHT * (IF anchor_text = 1 THEN 2 ELSE 0)
url_depth(url) ==
    CASE url \in {1, 2} -> 0 [] url \in {5, 6, 8} -> 2 [] url \in {9, 10} -> 0 - 2
      [] OTHER -> 1
url_length(url) ==
    CASE url = 1 -> 18 [] url = 2 -> 15 [] url = 3 -> 28 [] url = 4 -> 27
      [] url = 5 -> 29 [] url \in {6, 7} -> 39 [] url = 8 -> 34
      [] url \in {9, 10} -> 18 [] OTHER -> 27
query_params(url) == IF url \in {6, 7} THEN 1 ELSE 0
is_pdf(url) == IF url \in {7, 8} THEN 1 ELSE 0

\* extract_features and the feature_array built from it (lines 88-98 and
\* 106-116), in the order of the array.
extract_features(url, anchor_text, parent_relevance) ==
    << general_keyword_count(url), general_anchor_count(anchor_text),
       high_priority_keyword_count(url),
       high_priority_anchor_count(anchor_text), parent_relevance,
       url_depth(url), url_length(url), query_params(url), is_pdf(url) >>

\* StandardScaler: the samples it was fitted on, as their number and sum.
\* transform subtracts the mean; the result is kept times n_samples_seen_,
\* and the division by scale_ (1 after a single sample) is left out.
FreshScaler == [n_samples_seen_ |-> 0, sum |-> Zeros]
HasMean(scaler) == scaler.n_samples_seen_ > 0
scaler_partial_fit(scaler, x) ==
    [n_samples_seen_ |-> scaler.n_samples_seen_ + 1,
     sum |-> [i \in 1 .. NumFeatures |-> scaler.sum[i] + x[i]]]
scaler_transform(scaler, x) ==
    [i \in 1 .. NumFeatures |-> x[i] * scaler.n_samples_seen_ - scaler.sum[i]]

\* SGDClassifier(loss='log_loss'): coef_ and intercept_ exist once it was
\* fitted; t_ counts the samples it was fitted on. One step of partial_fit
\* moves the decision function towards the label of the sample, and
\* predict_proba is above 0.5 exactly when the decision function is positive.
FreshModel == [fitted |-> FALSE, coef_ |-> Zeros, intercept_ |-> 0, t_ |-> 0]
HasCoef(model) == model.fitted
Dot(a, b) ==
    LET S[i \in 0 .. NumFeatures] ==
            IF i = 0 THEN 0 ELSE S[i - 1] + a[i] * b[i]
    IN  S[NumFeatures]
model_partial_fit(model, z, label) ==
    LET y == IF label = 1 THEN 1 ELSE -1
    IN  [fitted |-> TRUE,
         coef_ |-> [i \in 1 .. NumFeatures |-> model.coef_[i] + y * z[i]],
         intercept_ |-> model.intercept_ + y,
         t_ |-> model.t_ + 1]
predict_proba(model, z) ==
    LET d == Dot(model.coef_, z) + model.intercept_
    IN  IF d > 0 THEN 8 ELSE IF d = 0 THEN 5 ELSE 2

\* __init__, lines 13-16, and the files of models/ when there are none.
FreshLearner == [model |-> FreshModel, scaler |-> FreshScaler, total_updates |-> 0]
NoModelFiles ==
    [model_file |-> [exists |-> FALSE, content |-> FreshModel],
     scaler_file |-> [exists |-> FALSE, content |-> FreshScaler],
     updates_file |-> [exists |-> FALSE, content |-> 0]]

\* A faulty variant: total_updates is not loaded.
load_model_without_updates(dir) ==
    IF dir.model_file.exists /\ dir.scaler_file.exists
    THEN [model |-> dir.model_file.content,
          scaler |-> dir.scaler_file.content,
          total_updates |-> 0]
    ELSE FreshLearner
\* load_model: model and scaler are loaded when both files exist, and
\* total_updates when its file exists too; else a new model.
load_model(dir) ==
    IF dir.model_file.exists /\ dir.scaler_file.exists
    THEN [model |-> dir.model_file.content,
          scaler |-> dir.scaler_file.content,
          total_updates |-> IF dir.updates_file.exists
                            THEN dir.updates_file.content ELSE 0]
    ELSE FreshLearner

\* A faulty variant: the features are not scaled.
predict_unscaled(self, url, anchor_text, parent_relevance) ==
    IF ~HasCoef(self.model) THEN 5
    ELSE predict_proba(self.model,
            extract_features(url, anchor_text, parent_relevance))
\* predict: 0.5 while the model has no coef_, else the probability of
\* class 1 for the scaled features.
predict(self, url, anchor_text, parent_relevance) ==
    IF ~HasCoef(self.model) THEN 5
    ELSE predict_proba(self.model,
            scaler_transform(self.scaler,
                extract_features(url, anchor_text, parent_relevance)))

\* update_model run by one thread alone, on the object only (lines 105-123).
fit_scaler(self, x) ==
    IF HasMean(self.scaler) THEN self.scaler ELSE scaler_partial_fit(self.scaler, x)
fit_model(self, x, label) ==
    model_partial_fit(self.model, scaler_transform(self.scaler, x), label)
update_model_alone(self, a) ==
    LET x == extract_features(a.url, a.anchor_text, a.parent_relevance)
        s1 == [self EXCEPT !.scaler = fit_scaler(self, x)]
        s2 == [s1 EXCEPT !.model = fit_model(s1, x, a.label)]
    IN  [s2 EXCEPT !.total_updates = @ + 1]
\* save_model run to its end: the three files hold the object.
Saved(self) ==
    [model_file |-> [exists |-> TRUE, content |-> self.model],
     scaler_file |-> [exists |-> TRUE, content |-> self.scaler],
     updates_file |-> [exists |-> TRUE, content |-> self.total_updates]]

\* A thread's call of online_learner: where it is, its arguments, the
\* feature_array, the object and the files as they were at entry,
\* total_updates as line 123 read it, and what predict returned.
NoArgs == [url |-> 1, anchor_text |-> 0, parent_relevance |-> 5, label |-> 0]
IdleCall ==
    [pc |-> "idle", op |-> "none", args |-> NoArgs, features |-> Zeros,
     entry |-> [self |-> FreshLearner, dir |-> NoModelFiles], loaded |-> 0,
     prob |-> 5]
InCall(c) == calls[c].pc \notin {"idle", "returned", "raised"}
ZeroTally(self) == [started |-> 0, succeeded |-> 0, failed |-> 0, base |-> self]
Raise(c) ==
    /\ calls' = [calls EXCEPT ![c].pc = "raised"]
    /\ tally' = [tally EXCEPT !.failed = @ + 1]

\* Lines 103-116: update_model is entered with arguments a.
EnterUpdateModel(c, a) ==
    /\ ~InCall(c)
    /\ calls' = [calls EXCEPT ![c] =
          [pc |-> "check_scaler", op |-> "update_model", args |-> a,
           features |-> extract_features(a.url, a.anchor_text, a.parent_relevance),
           entry |-> [self |-> online_learner, dir |-> models_dir],
           loaded |-> 0, prob |-> 5]]
    /\ tally' = [tally EXCEPT !.started = @ + 1]

\* A faulty variant: the scaler is fitted on every sample.
CheckScalerFitsAlways(c) ==
    /\ calls[c].pc = "check_scaler"
    /\ calls' = [calls EXCEPT ![c].pc = "scaler_fit"]
    /\ UNCHANGED << crawl_vars, views_vars, workflow_vars, online_learner, models_dir, tally >>
\* Line 118: hasattr(self.scaler, 'mean_').
CheckScaler(c) ==
    /\ calls[c].pc = "check_scaler"
    /\ calls' = [calls EXCEPT ![c].pc =
          IF HasMean(online_learner.scaler) THEN "fit" ELSE "scaler_fit"]
    /\ UNCHANGED << crawl_vars, views_vars, workflow_vars, online_learner, models_dir, tally >>

\* Line 119: self.scaler.partial_fit(feature_array).
ScalerPartialFit(c) ==
    /\ calls[c].pc = "scaler_fit"
    /\ online_learner' = [online_learner EXCEPT
          !.scaler = scaler_partial_fit(@, calls[c].features)]
    /\ calls' = [calls EXCEPT ![c].pc = "fit"]
    /\ UNCHANGED << crawl_vars, views_vars, workflow_vars, models_dir, tally >>

\* Lines 120-122: transform and self.model.partial_fit, which may raise.
ModelPartialFit(c) ==
    /\ calls[c].pc = "fit"
    /\ \/ /\ online_learner' = [online_learner EXCEPT
                !.model = fit_model(online_learner, calls[c].features,
                                    calls[c].args.label)]
          /\ calls' = [calls EXCEPT ![c].pc = "load_updates"]
          /\ UNCHANGED tally
       \/ Raise(c) /\ UNCHANGED online_learner
    /\ UNCHANGED << crawl_vars, views_vars, workflow_vars, models_dir >>

\* Line 123, self.total_updates += 1: the attribute is read ...
LoadUpdates(c) ==
    /\ calls[c].pc = "load_updates"
    /\ calls' = [calls EXCEPT ![c].pc = "store_updates",
                              ![c].loaded = online_learner.total_updates]
    /\ UNCHANGED << crawl_vars, views_vars, workflow_vars, online_learner, models_dir, tally >>

\* A faulty variant: only the samples labelled relevant are counted.
StoredUpdatesOfLabel(c) == calls[c].loaded + calls[c].args.label
\* ... and the sum is stored.
StoredUpdates(c) == calls[c].loaded + 1
StoreUpdates(c) ==
    /\ calls[c].pc = "store_updates"
    /\ online_learner' = [online_learner EXCEPT !.total_updates = StoredUpdates(c)]
    /\ calls' = [calls EXCEPT ![c].pc = "dump_model", ![c].loaded = 0]
    /\ UNCHANGED << crawl_vars, views_vars, workflow_vars, models_dir, tally >>

\* save_model, lines 35-37: each joblib.dump writes its file or raises.
DumpModel(c) ==
    /\ calls[c].pc = "dump_model"
    /\ \/ /\ models_dir' = [models_dir EXCEPT !.model_file =
                [exists |-> TRUE, content |-> online_learner.model]]
          /\ calls' = [calls EXCEPT ![c].pc = "dump_scaler"]
          /\ UNCHANGED tally
       \/ Raise(c) /\ UNCHANGED models_dir
    /\ UNCHANGED << crawl_vars, views_vars, workflow_vars, online_learner >>

DumpScaler(c) ==
    /\ calls[c].pc = "dump_scaler"
    /\ \/ /\ models_dir' = [models_dir EXCEPT !.scaler_file =
                [exists |-> TRUE, content |-> online_learner.scaler]]
          /\ calls' = [calls EXCEPT ![c].pc = "dump_updates"]
          /\ UNCHANGED tally
       \/ Raise(c) /\ UNCHANGED models_dir
    /\ UNCHANGED << crawl_vars, views_vars, workflow_vars, online_learner >>

\* The last dump; update_model returns after it.
DumpUpdates(c) ==
    /\ calls[c].pc = "dump_updates"
    /\ \/ /\ models_dir' = [models_dir EXCEPT !.updates_file =
                [exists |-> TRUE, content |-> online_learner.total_updates]]
          /\ calls' = [calls EXCEPT ![c].pc = "returned"]
          /\ tally' = [tally EXCEPT !.succeeded = @ + 1]
       \/ Raise(c) /\ UNCHANGED models_dir
    /\ UNCHANGED << crawl_vars, views_vars, workflow_vars, online_learner >>

\* ------------------------------------ the callers of online_learner
\* What the calls are made with, and how many update_model calls are made.
LearnerInputs == { << 3, 1 >>, << 4, 2 >> }
Labels == {0, 1}
MaxCalls == 2
\* update_model is called with parent_relevance 0.5 (workflow.py line 177),
\* predict with 1 (line 63).
UpdateArgs ==
    { [url |-> l[1], anchor_text |-> l[2], parent_relevance |-> 5, label |-> y] :
        l \in LearnerInputs, y \in Labels }
PredictArgs ==
    { [url |-> l[1], anchor_text |-> l[2], parent_relevance |-> 10, label |-> 0] :
        l \in LearnerInputs }

\* A thread calls online_learner.update_model.
CallUpdateModel(c) ==
    /\ tally.started < MaxCalls
    /\ \E a \in UpdateArgs : EnterUpdateModel(c, a)
    /\ UNCHANGED << crawl_vars, views_vars, workflow_vars, online_learner, models_dir >>

\* A thread calls online_learner.predict, lines 82-101.
CallPredict(c) ==
    /\ ~InCall(c)
    /\ \E a \in PredictArgs :
          calls' = [calls EXCEPT ![c] =
             [pc |-> "returned", op |-> "predict", args |-> a,
              features |-> extract_features(a.url, a.anchor_text, a.parent_relevance),
              entry |-> [self |-> online_learner, dir |-> models_dir],
              loaded |-> 0,
              prob |-> predict(online_learner, a.url, a.anchor_text,
                               a.parent_relevance)]]
    /\ UNCHANGED << crawl_vars, views_vars, workflow_vars, online_learner, models_dir, tally >>

\* The process ends at any point and a new one imports workflow.py:
\* online_learner is constructed again, from the files (lines 9-17).
Restart ==
    /\ online_learner' = load_model(models_dir)
    /\ calls' = [c \in DOMAIN calls |-> IdleCall]
    /\ tally' = [ZeroTally(load_model(models_dir)) EXCEPT !.started = tally.started]
    /\ UNCHANGED << crawl_vars, views_vars, workflow_vars, models_dir >>

\* The State of workflow.py, lines 16-26, as run_workflow constructs it; 0
\* stands for no current_url.
NewState(urls, quick_scrape) ==
    [urls |-> urls, index |-> 0, current_url |-> 0, is_static |-> "None",
     scraped_data |-> "None", extracted_data |-> "None", status |-> "starting",
     errors |-> << >>, quick_scrape |-> quick_scrape]

\* ------------------------------------------- the per-page workflow
\* load_seed_urls: the lines of data/urls.txt that are valid URLs, each URL
\* once, in the order of the file; nothing when the file is not found.
RECURSIVE load_lines(_, _)
load_lines(lines, seen) ==
    IF lines = << >> THEN << >>
    ELSE LET l == Head(lines)
         IN  IF is_valid_url(l.url) /\ l.url \notin seen
             THEN << << l.url, l.anchor_text >> >>
                      \o load_lines(Tail(lines), seen \cup {l.url})
             ELSE load_lines(Tail(lines), seen)
load_seed_urls ==
    IF urls_txt.exists THEN load_lines(urls_txt.lines, {}) ELSE << >>

\* The entry of state.urls at state.index.
CurrentEntry == state.urls[state.index + 1]

\* route_after_check, lines 250-256.
route_after_check(st) ==
    IF st.status = "finished" THEN "END"
    ELSE IF st.status = "error" \/ st.current_url = 0 THEN "increment_index"
    ELSE "detect_type"

\* One superstep of the compiled graph: a node runs while fewer than
\* recursion_limit supersteps were made (scheduler.py line 44).
recursion_limit == 500
Step ==
    /\ superstep < recursion_limit
    /\ superstep' = superstep + 1

\* scheduler.run_workflow, lines 21-45, after generate_urls: it returns if
\* generate_urls raised or the event is cleared (not for a quick scrape,
\* which does not generate); else it invokes the graph.
app_invoke ==
    /\ node = "none"
    /\ gen_pc \in {"returned", "raised"}
    /\ node' = IF state.quick_scrape THEN "initialize"
               ELSE IF gen_pc = "raised" \/ ~crawler_running_event THEN "returned"
               ELSE "initialize"
    /\ UNCHANGED << crawl_vars, views_vars, learner_vars, state, database,
                    superstep >>

\* initialize, lines 28-38.
initialize ==
    /\ node = "initialize"
    /\ Step
    /\ state' = [state EXCEPT
          !.urls = IF state.urls # << >> THEN @ ELSE load_seed_urls,
          !.index = 0,
          !.status = "initialized"]
    /\ node' = "check_urls"
    /\ UNCHANGED << crawl_vars, views_vars, learner_vars, database >>

\* check_urls, lines 40-69, and the edge after it. url_exists_in_db gives
\* False when the query fails, and never raises. The prediction and
\* trained_enough are computed and logged.
check_urls_result(exists) ==
    IF state.index >= Len(state.urls)
    THEN [state EXCEPT !.status = "finished"]
    ELSE IF ~state.quick_scrape /\ exists
    THEN [state EXCEPT !.index = @ + 1]
    ELSE [state EXCEPT !.current_url = CurrentEntry[1], !.status = "processing"]
check_urls ==
    /\ node = "check_urls"
    /\ Step
    /\ \E db_fails \in BOOLEAN :
          LET exists == /\ state.index < Len(state.urls)
                        /\ ~db_fails
                        /\ CurrentEntry[1] \in database
          IN  /\ state' = check_urls_result(exists)
              /\ node' = route_after_check(check_urls_result(exists))
    /\ UNCHANGED << crawl_vars, views_vars, learner_vars, database >>

\* detect_type, lines 71-81: is_static gives False when the event is cleared
\* or the request fails, and never raises.
detect_type ==
    /\ node = "detect_type"
    /\ Step
    /\ \E static \in Answers :
          state' = [state EXCEPT !.is_static =
                       IF crawler_running_event /\ static THEN "True" ELSE "False"]
    /\ node' = "scrape"
    /\ UNCHANGED << crawl_vars, views_vars, learner_vars, database >>

\* scrape, lines 83-105: the scrapers give None when the event is cleared
\* or the page cannot be scraped; without data the node records an error.
scrape ==
    /\ node = "scrape"
    /\ Step
    /\ \E scraped \in Answers :
          state' = IF crawler_running_event /\ scraped
                   THEN [state EXCEPT !.scraped_data = "data"]
                   ELSE [state EXCEPT !.scraped_data = "None",
                                      !.status = "error",
                                      !.errors = Append(@, "Scraping failed")]
    /\ node' = "extract_data"
    /\ UNCHANGED << crawl_vars, views_vars, learner_vars, database >>

\* extract_data, lines 107-132: what extract_info_with_llm gives is data
\* with a key field populated, data without one, the empty template, a dict
\* with "error", or None; the last two, and no scraped data, are errors.
LlmResults == {"populated", "unpopulated", "empty", "error", "None"}
extract_data ==
    /\ node = "extract_data"
    /\ Step
    /\ \E llm \in LlmResults :
          state' = IF state.scraped_data # "None" /\ llm \notin {"error", "None"}
                   THEN [state EXCEPT !.extracted_data = llm]
                   ELSE [state EXCEPT !.extracted_data = "None",
                                      !.status = "error",
                                      !.errors = Append(@, "Extraction failed")]
    /\ node' = "store_data"
    /\ UNCHANGED << crawl_vars, views_vars, learner_vars, database >>

\* store_data_node, lines 134-171: data other than the empty template is
\* passed to store_data with session=..., a keyword that store_data
\* (database.py line 12) does not take: the call raises TypeError, which the
\* node records as an error.
store_data_node ==
    /\ node = "store_data"
    /\ Step
    /\ state' = IF state.extracted_data \in {"populated", "unpopulated"}
                THEN [state EXCEPT !.status = "error",
                                   !.errors = Append(@, "Storage failed")]
                ELSE state
    /\ node' = "update_model"
    /\ UNCHANGED << crawl_vars, views_vars, learner_vars, database >>

\* update_model, lines 173-226: the label, and the call of
\* online_learner.update_model, which the node does not guard.
Label(st) ==
    IF st.status = "error" \/ st.extracted_data \in {"None", "error"} THEN 0
    ELSE IF st.extracted_data = "empty" THEN 0
    ELSE IF st.extracted_data = "populated" THEN 1 ELSE 0
update_model ==
    /\ node = "update_model"
    /\ Step
    /\ IF state.current_url # 0
       THEN /\ EnterUpdateModel(1,
                  [url |-> state.current_url, anchor_text |-> CurrentEntry[2],
                   parent_relevance |-> 5, label |-> Label(state)])
            /\ node' = "online_learner.update_model"
       ELSE /\ node' = "increment_index"
            /\ UNCHANGED << calls, tally >>
    /\ UNCHANGED << crawl_vars, views_vars, online_learner, models_dir, state, database >>

\* online_learner.update_model returns to the node (line 225).
UpdateModelReturns ==
    /\ node = "online_learner.update_model"
    /\ calls[1].pc = "returned"
    /\ node' = "increment_index"
    /\ UNCHANGED << crawl_vars, views_vars, learner_vars, state, database,
                    superstep >>

\* It raises: the exception leaves the node and app.invoke, and is logged by
\* run_workflow (scheduler.py lines 61-62), which returns.
UpdateModelRaises ==
    /\ node = "online_learner.update_model"
    /\ calls[1].pc = "raised"
    /\ node' = "raised"
    /\ UNCHANGED << crawl_vars, views_vars, learner_vars, state, database,
                    superstep >>

\* The graph has made recursion_limit supersteps and has not ended:
\* app.invoke raises GraphRecursionError, which run_workflow logs
\* (scheduler.py lines 61-62).
Nodes ==
    {"initialize", "check_urls", "detect_type", "scrape", "extract_data",
     "store_data", "update_model", "increment_index"}
OutOfSteps ==
    /\ node \in Nodes
    /\ superstep >= recursion_limit
    /\ node' = "GraphRecursionError"
    /\ UNCHANGED << crawl_vars, views_vars, learner_vars, state, database,
                    superstep >>

\* increment_index, lines 228-236.
increment_index ==
    /\ node = "increment_index"
    /\ Step
    /\ state' = [state EXCEPT !.index = @ + 1, !.current_url = 0,
                              !.is_static = "None", !.scraped_data = "None",
                              !.extracted_data = "None", !.status = "processing"]
    /\ node' = "check_urls"
    /\ UNCHANGED << crawl_vars, views_vars, learner_vars, database >>

\* No call of categorize_urls_with_semantics is followed on its own.
NotCalled == [pc |-> "idle"]
\* The parts of the program that a specification leaves alone.
CrawlAtRest ==
    /\ config = [MAX_WORKERS |-> 1, MAX_DEPTH |-> 0, MAX_URLS |-> 1,
                 TIMEOUT_SECONDS |-> 0]
    /\ crawler_running_event = FALSE
    /\ domains_file = "ok"
    /\ seeds_file = "ok"
    /\ gen_pc = "idle"
    /\ university_domains = {}
    /\ directory_urls = {}
    /\ tasks = NoTasks
    /\ visited_urls = {}
    /\ elapsed = 0
    /\ merged_urls = {}
    /\ old_frontier = Absent
    /\ files = [f \in {"urls.tmp", "data/urls.txt"} |-> Absent]
    /\ log = {}
    /\ fetched = [u \in Urls |-> 0]
    /\ web = "campus"
    /\ categorized = NotCalled
    /\ config_file = ConfigFileOf(config)
LearnerAtRest ==
    /\ online_learner = FreshLearner
    /\ models_dir = NoModelFiles
    /\ calls = << >>
    /\ tally = ZeroTally(FreshLearner)
WorkflowAtRest ==
    /\ state = NewState(<< >>, FALSE)
    /\ node = "none"
    /\ database = {}
    /\ superstep = 0
ViewsAtRest ==
    /\ requests = << >>
    /\ threads = << >>

\* ------------------------------------------------------ specification
Init ==
    /\ config \in Configs
    /\ crawler_running_event = FALSE
    /\ domains_file \in FileStates
    /\ seeds_file \in FileStates
    /\ gen_pc = "idle"
    /\ university_domains = {}
    /\ directory_urls = {}
    /\ tasks = NoTasks
    /\ visited_urls = {}
    /\ elapsed = 0
    /\ merged_urls = {}
    /\ old_frontier \in {Absent, File(OldFrontier)}
    /\ files = [f \in {"urls.tmp", "data/urls.txt"} |->
                  IF f = "urls.tmp" THEN Absent ELSE old_frontier]
    /\ log = {}
    /\ fetched = [u \in Urls |-> 0]
    /\ fetch = [pc |-> "idle"]
    /\ web = "campus"
    /\ categorized = NotCalled
    /\ config_file = ConfigFileOf(config)
    /\ LearnerAtRest
    /\ WorkflowAtRest
    /\ ViewsAtRest

Next ==
    \/ run_crawler
    \/ stop_crawler
    \/ run_workflow
    \/ LoadDomains
    \/ LoadSeeds
    \/ SubmitSeed
    \/ \E t \in DOMAIN tasks : Enter(t)
    \/ \E t \in DOMAIN tasks : AddAndFetch(t)
    \/ \E t \in DOMAIN tasks : FetchReturns(t)
    \/ \E t \in DOMAIN tasks : SubmitChild(t)
    \/ \E t \in DOMAIN tasks : JoinChildren(t)
    \/ JoinSeeds
    \/ OpenTmp
    \/ WriteLine
    \/ Replace
    \/ Return
    \/ Kill
    \/ Tick

Spec == Init /\ [][Next]_vars

\* The same program on the web whose first seed is the page of links.
InitLinks ==
    /\ config \in Configs
    /\ crawler_running_event = FALSE
    /\ domains_file \in FileStates
    /\ seeds_file \in FileStates
    /\ gen_pc = "idle"
    /\ university_domains = {}
    /\ directory_urls = {}
    /\ tasks = NoTasks
    /\ visited_urls = {}
    /\ elapsed = 0
    /\ merged_urls = {}
    /\ old_frontier \in {Absent, File(OldFrontier)}
    /\ files = [f \in {"urls.tmp", "data/urls.txt"} |->
                  IF f = "urls.tmp" THEN Absent ELSE old_frontier]
    /\ log = {}
    /\ fetched = [u \in Urls |-> 0]
    /\ fetch = [pc |-> "idle"]
    /\ web = "links"
    /\ categorized = NotCalled
    /\ config_file = ConfigFileOf(config)
    /\ LearnerAtRest
    /\ WorkflowAtRest
    /\ ViewsAtRest

SpecLinks == InitLinks /\ [][Next]_vars

\* The same program on the ring of pages, with one level of recursion more
\* and both lists readable.
MaxRingDepth == 2
RingConfigs ==
    [MAX_WORKERS : 1 .. MaxWorkers, MAX_DEPTH : 0 .. MaxRingDepth,
     MAX_URLS : 1 .. MaxUrls, TIMEOUT_SECONDS : 0 .. MaxTimeout]
InitRing ==
    /\ config \in RingConfigs
    /\ crawler_running_event = FALSE
    /\ domains_file = "ok"
    /\ seeds_file = "ok"
    /\ gen_pc = "idle"
    /\ university_domains = {}
    /\ directory_urls = {}
    /\ tasks = NoTasks
    /\ visited_urls = {}
    /\ elapsed = 0
    /\ merged_urls = {}
    /\ old_frontier = Absent
    /\ files = [f \in {"urls.tmp", "data/urls.txt"} |-> Absent]
    /\ log = {}
    /\ fetched = [u \in Urls |-> 0]
    /\ fetch = [pc |-> "idle"]
    /\ web = "ring"
    /\ categorized = NotCalled
    /\ config_file = ConfigFileOf(config)
    /\ LearnerAtRest
    /\ WorkflowAtRest
    /\ ViewsAtRest

SpecRing == InitRing /\ [][Next]_vars

\* The same with the threads scheduled: a step of load, traversal, join or
\* write that stays possible is taken, and a fetch in progress returns.
\* Nothing is assumed about the clock, the views or a kill.
Scheduled ==
    \/ run_workflow
    \/ LoadDomains
    \/ LoadSeeds
    \/ SubmitSeed
    \/ \E t \in DOMAIN tasks : Enter(t)
    \/ \E t \in DOMAIN tasks : AddAndFetch(t)
    \/ \E t \in DOMAIN tasks : FetchReturns(t)
    \/ \E t \in DOMAIN tasks : SubmitChild(t)
    \/ \E t \in DOMAIN tasks : JoinChildren(t)
    \/ JoinSeeds
    \/ OpenTmp
    \/ WriteLine
    \/ Replace
    \/ Return
SpecRingFair == InitRing /\ [][Next]_vars /\ WF_vars(Scheduled)

\* ------------------------------ categorize_urls_with_semantics alone
\* One call with up to MaxLinks links out of the pages 1 to 4 under the
\* anchor texts 0 to 3, and a set of university domains.
MaxLinks == 2
Candidates == (1 .. 4) \X (0 .. 3)
DomainSets == { {}, {"uni.edu"}, {"cs.uni.edu"}, {"hub.com", "uni.edu"} }
InitCategorize ==
    /\ config = [MAX_WORKERS |-> 1, MAX_DEPTH |-> 0, MAX_URLS |-> 1,
                 TIMEOUT_SECONDS |-> 0]
    /\ crawler_running_event = FALSE
    /\ domains_file = "ok"
    /\ seeds_file = "ok"
    /\ gen_pc = "idle"
    /\ university_domains = {}
    /\ directory_urls = {}
    /\ tasks = NoTasks
    /\ visited_urls = {}
    /\ elapsed = 0
    /\ merged_urls = {}
    /\ old_frontier = Absent
    /\ files = [f \in {"urls.tmp", "data/urls.txt"} |-> Absent]
    /\ log = {}
    /\ fetched = [u \in Urls |-> 0]
    /\ fetch = [pc |-> "idle"]
    /\ web = "campus"
    /\ config_file = ConfigFileOf(config)
    /\ \E links \in SUBSET Candidates, domains \in DomainSets :
          /\ Cardinality(links) <= MaxLinks
          /\ categorized = [pc |-> "call", links |-> links, domains |-> domains]
    /\ LearnerAtRest
    /\ WorkflowAtRest
    /\ ViewsAtRest

\* Lines 141-163: the call returns << lab_urls, startup_urls >>.
Categorize ==
    /\ categorized.pc = "call"
    /\ categorized' =
          [pc |-> "returned", links |-> categorized.links,
           domains |-> categorized.domains,
           result |-> categorize_urls_with_semantics(categorized.links,
                                                     categorized.domains)]
    /\ UNCHANGED << config, crawler_running_event, domains_file, seeds_file,
                    gen_pc, university_domains, directory_urls, tasks,
                    visited_urls, elapsed, merged_urls, files, old_frontier,
                    log, fetched, fetch, web, config_file, learner_vars,
                    workflow_vars, views_vars >>

NextCategorize == Categorize

SpecCategorize == InitCategorize /\ [][NextCategorize]_vars

\* --------------------------------------------- the import of helpers.py
InitConfig ==
    /\ config = NotLoaded
    /\ config_file \in ConfigFiles
    /\ crawler_running_event = FALSE
    /\ domains_file = "ok"
    /\ seeds_file = "ok"
    /\ gen_pc = "idle"
    /\ university_domains = {}
    /\ directory_urls = {}
    /\ tasks = NoTasks
    /\ visited_urls = {}
    /\ elapsed = 0
    /\ merged_urls = {}
    /\ old_frontier = Absent
    /\ files = [f \in {"urls.tmp", "data/urls.txt"} |-> Absent]
    /\ log = {}
    /\ fetched = [u \in Urls |-> 0]
    /\ fetch = [pc |-> "idle"]
    /\ web = "campus"
    /\ categorized = NotCalled
    /\ LearnerAtRest
    /\ WorkflowAtRest
    /\ ViewsAtRest

NextConfig == LoadConfig

SpecConfig == InitConfig /\ [][NextConfig]_vars

\* ---------------------------------------------- fetch_url, step by step
\* One SESSION.get of the fetch_url call in progress: the body returns or
\* raises; backoff calls again after a wait while the body raised and fewer
\* than max_tries calls were made, and lets the last exception through.
AfterAttempt(f) ==
    LET r == fetch_url_body(f.url, f.script[f.attempts + 1])
    IN  [f EXCEPT !.attempts = @ + 1,
                  !.result = r.value,
                  !.pc = IF ~r.raised THEN "returned"
                         ELSE IF f.attempts + 1 < max_tries THEN "call"
                         ELSE "raised"]

SessionGet ==
    /\ fetch.pc = "call"
    /\ fetch' = AfterAttempt(fetch)
    /\ UNCHANGED << config, crawler_running_event, domains_file, seeds_file,
                    gen_pc, university_domains, directory_urls, tasks,
                    visited_urls, elapsed, merged_urls, files, old_frontier,
                    log, fetched,
                    web, config_file, categorized,
                    learner_vars, workflow_vars, views_vars >>

InitFetch ==
    /\ CrawlAtRest
    /\ LearnerAtRest
    /\ WorkflowAtRest
    /\ ViewsAtRest
    /\ \E u \in Urls, script \in [1 .. max_tries -> HttpOutcomes] :
          fetch = [pc |-> "call", url |-> u, script |-> script, attempts |-> 0,
                   result |-> << u, None >>]

NextFetch == SessionGet

SpecFetch == InitFetch /\ [][NextFetch]_vars

\* ------------------------------------- online_learner and its callers
\* Two threads of one process call online_learner (the crawl thread and a
\* quick scrape run their workflows at the same time), or one thread alone.
InitLearner ==
    /\ CrawlAtRest
    /\ fetch = [pc |-> "idle"]
    /\ WorkflowAtRest
    /\ ViewsAtRest
    /\ online_learner = FreshLearner
    /\ models_dir = NoModelFiles
    /\ calls = [c \in 1 .. 2 |-> IdleCall]
    /\ tally = ZeroTally(FreshLearner)

InitLearnerAlone ==
    /\ CrawlAtRest
    /\ fetch = [pc |-> "idle"]
    /\ WorkflowAtRest
    /\ ViewsAtRest
    /\ online_learner = FreshLearner
    /\ models_dir = NoModelFiles
    /\ calls = [c \in 1 .. 1 |-> IdleCall]
    /\ tally = ZeroTally(FreshLearner)

NextLearner ==
    \/ \E c \in DOMAIN calls : CallUpdateModel(c)
    \/ \E c \in DOMAIN calls : CallPredict(c)
    \/ \E c \in DOMAIN calls : CheckScaler(c)
    \/ \E c \in DOMAIN calls : ScalerPartialFit(c)
    \/ \E c \in DOMAIN calls : ModelPartialFit(c)
    \/ \E c \in DOMAIN calls : LoadUpdates(c)
    \/ \E c \in DOMAIN calls : StoreUpdates(c)
    \/ \E c \in DOMAIN calls : DumpModel(c)
    \/ \E c \in DOMAIN calls : DumpScaler(c)
    \/ \E c \in DOMAIN calls : DumpUpdates(c)
    \/ Restart

SpecLearner == InitLearner /\ [][NextLearner]_vars
SpecLearnerAlone == InitLearnerAlone /\ [][NextLearner]_vars

\* ------------------------------------------------ the per-page workflow
\* run_workflow invokes the graph (scheduler.py lines 40-45): on the list
\* loaded from data/urls.txt, or for a quick scrape on the initial URL with
\* the anchor text "initial" (3). The model was trained by earlier runs, up
\* to one update short of trained_enough, or there are no files yet.
TrainedEnough == 100
\* The object after n update_model calls with the same sample of label 0:
\* the scaler was fitted on it by the first, every fit saw it scaled to zero.
Trained(n) ==
    [model |-> [fitted |-> TRUE, coef_ |-> Zeros, intercept_ |-> 0 - n, t_ |-> n],
     scaler |-> scaler_partial_fit(FreshScaler, extract_features(3, 1, 5)),
     total_updates |-> n]
WorkflowFrontiers ==
    { { << 3, 1 >>, << 4, 2 >> },
      { << 3, 1 >>, << 3, 2 >>, << 4, 2 >> },
      { << 1, 0 >>, << 3, 1 >>, << 4, 2 >> } }
\* The longest data/urls.txt: the pages from 11 on, one per line.
MaxFrontier == 72
LongFrontier == [i \in 1 .. MaxFrontier |-> Line(<< 10 + i, 1 >>)]

\* How generate_urls ended: it wrote data/urls.txt, it returned at line 221
\* or 228 for a missing list, or it raised for an unreadable one.
GenerationOutcomes ==
    { [domains_file |-> "ok", seeds_file |-> "ok", gen_pc |-> "returned",
       log |-> {}],
      [domains_file |-> "missing", seeds_file |-> "ok", gen_pc |-> "returned",
       log |-> {"Aborting due to missing university domains"}],
      [domains_file |-> "ok", seeds_file |-> "missing", gen_pc |-> "returned",
       log |-> {"data/potential_directories.txt not found"}],
      [domains_file |-> "unreadable", seeds_file |-> "ok", gen_pc |-> "raised",
       log |-> {"Critical error in URL generation"}] }
\* The web and data/urls.txt of a run: some pages of the campus are in
\* the file, or the file is long and the network is down.
WorkflowRuns ==
    { [web |-> "campus", file |-> f] :
        f \in {Absent} \cup { File(FrontierLines(S)) : S \in WorkflowFrontiers } }
    \cup { [web |-> "down", file |-> File(LongFrontier)] }

InitWorkflow ==
    /\ config = [MAX_WORKERS |-> 1, MAX_DEPTH |-> 0, MAX_URLS |-> 1,
                 TIMEOUT_SECONDS |-> 0]
    /\ crawler_running_event = TRUE
    /\ \E g \in GenerationOutcomes :
          /\ domains_file = g.domains_file
          /\ seeds_file = g.seeds_file
          /\ gen_pc = g.gen_pc
          /\ log = g.log
    /\ university_domains = {}
    /\ directory_urls = {}
    /\ tasks = NoTasks
    /\ visited_urls = {}
    /\ elapsed = 0
    /\ merged_urls = {}
    /\ \E r \in WorkflowRuns :
          /\ web = r.web
          /\ categorized = NotCalled
          /\ files = [x \in {"urls.tmp", "data/urls.txt"} |->
                        IF x = "urls.tmp" THEN Absent ELSE r.file]
    /\ old_frontier = IF domains_file = "ok" /\ seeds_file = "ok"
                      THEN Absent ELSE urls_txt
    /\ fetched = [u \in Urls |-> 0]
    /\ fetch = [pc |-> "idle"]
    /\ config_file = ConfigFileOf(config)
    /\ ViewsAtRest
    /\ models_dir \in {NoModelFiles, Saved(Trained(TrainedEnough - 1))}
    /\ online_learner = load_model(models_dir)
    /\ calls = [c \in 1 .. 1 |-> IdleCall]
    /\ tally = ZeroTally(online_learner)
    /\ state \in {NewState(<< >>, FALSE), NewState(<< << 1, 3 >> >>, TRUE)}
    /\ node = "none"
    /\ database \in {{}, {3}}
    /\ superstep = 0

NextWorkflow ==
    \/ app_invoke
    \/ initialize
    \/ check_urls
    \/ detect_type
    \/ scrape
    \/ extract_data
    \/ store_data_node
    \/ update_model
    \/ \E c \in DOMAIN calls : CheckScaler(c)
    \/ \E c \in DOMAIN calls : ScalerPartialFit(c)
    \/ \E c \in DOMAIN calls : ModelPartialFit(c)
    \/ \E c \in DOMAIN calls : LoadUpdates(c)
    \/ \E c \in DOMAIN calls : StoreUpdates(c)
    \/ \E c \in DOMAIN calls : DumpModel(c)
    \/ \E c \in DOMAIN calls : DumpScaler(c)
    \/ \E c \in DOMAIN calls : DumpUpdates(c)
    \/ UpdateModelReturns
    \/ UpdateModelRaises
    \/ increment_index
    \/ OutOfSteps
    \/ stop_crawler

SpecWorkflow == InitWorkflow /\ [][NextWorkflow]_vars

\* ------------------------------------------------------ crawler/views.py
\* The run control of views.py, line by line: every request and every
\* thread is at a line of its own, and the steps of different requests and
\* threads interleave. The work of run_workflow is one stretch ("workflow")
\* that ends at a moment of its own.
MaxRequests == 3
Views == {"run_crawler", "stop_crawler", "ai_prompt"}
FirstLine(view) ==
    CASE view = "run_crawler" -> "254"
      [] view = "stop_crawler" -> "276"
      [] view = "ai_prompt" -> "478"
At(r, line) == r \in DOMAIN requests /\ requests[r].pc = line
Goto(r, line) == requests' = [requests EXCEPT ![r].pc = line]
ThreadAt(t, line) == t \in DOMAIN threads /\ threads[t].pc = line
ThreadGoto(t, line) == threads' = [threads EXCEPT ![t].pc = line]
NewThread(target, line) == [target |-> target, pc |-> line]
ViewsUnchanged == UNCHANGED << config, domains_file, seeds_file, gen_pc,
                    university_domains, directory_urls, tasks, visited_urls,
                    elapsed, merged_urls, files, old_frontier, log, fetched,
                    fetch, web, config_file, categorized, learner_vars, workflow_vars >>

\* A request reaches one of the views.
Request(view) ==
    /\ Len(requests) < MaxRequests
    /\ requests' = Append(requests, [view |-> view, pc |-> FirstLine(view)])
    /\ UNCHANGED << crawler_running_event, threads >>
    /\ ViewsUnchanged

\* run_crawler, lines 254-256: the request is rejected while the event is
\* set.
RunCrawlerCheck(r) ==
    /\ requests[r].view = "run_crawler"
    /\ At(r, "254")
    /\ Goto(r, IF crawler_running_event THEN "already_running" ELSE "260")
    /\ UNCHANGED << crawler_running_event, threads >>
    /\ ViewsUnchanged
\* run_crawler, lines 259-260: the session is created and the event set.
RunCrawlerSet(r) ==
    /\ requests[r].view = "run_crawler"
    /\ At(r, "260")
    /\ crawler_running_event' = TRUE
    /\ Goto(r, "264")
    /\ UNCHANGED threads
    /\ ViewsUnchanged
\* run_crawler, lines 263-268: the thread of run_workflow_with_stop is
\* started.
RunCrawlerStart(r) ==
    /\ requests[r].view = "run_crawler"
    /\ At(r, "264")
    /\ threads' = Append(threads, NewThread("run_workflow_with_stop", "17"))
    /\ Goto(r, "started")
    /\ UNCHANGED crawler_running_event
    /\ ViewsUnchanged

\* stop_crawler, lines 276-278.
StopCrawlerCheck(r) ==
    /\ requests[r].view = "stop_crawler"
    /\ At(r, "276")
    /\ Goto(r, IF crawler_running_event THEN "281" ELSE "not_running")
    /\ UNCHANGED << crawler_running_event, threads >>
    /\ ViewsUnchanged
\* stop_crawler, line 281.
StopCrawlerClear(r) ==
    /\ requests[r].view = "stop_crawler"
    /\ At(r, "281")
    /\ crawler_running_event' = FALSE
    /\ Goto(r, "286")
    /\ UNCHANGED threads
    /\ ViewsUnchanged
\* stop_crawler, lines 284-291: join(timeout=5) returns when the thread has
\* ended or after 5 seconds with the thread alive; the answer is "stopped"
\* in both cases.
StopCrawlerJoin(r) ==
    /\ requests[r].view = "stop_crawler"
    /\ At(r, "286")
    /\ Goto(r, "stopped")
    /\ UNCHANGED << crawler_running_event, threads >>
    /\ ViewsUnchanged

\* ai_prompt, lines 477-478: the event is set for the quick scrape.
AiPromptSet(r) ==
    /\ requests[r].view = "ai_prompt"
    /\ At(r, "478")
    /\ crawler_running_event' = TRUE
    /\ Goto(r, "480")
    /\ UNCHANGED threads
    /\ ViewsUnchanged
\* ai_prompt, lines 480-482: run_workflow_with_stop(quick_scrape=True) runs
\* in the request; its finally leaves the event alone (line 312).
AiPromptQuickScrape(r) ==
    /\ requests[r].view = "ai_prompt"
    /\ At(r, "480")
    /\ Goto(r, "483")
    /\ UNCHANGED << crawler_running_event, threads >>
    /\ ViewsUnchanged
\* ai_prompt, line 483.
AiPromptClear(r) ==
    /\ requests[r].view = "ai_prompt"
    /\ At(r, "483")
    /\ crawler_running_event' = FALSE
    /\ Goto(r, "521")
    /\ UNCHANGED threads
    /\ ViewsUnchanged
\* ai_prompt, line 521: the thread of start_full_crawler is started.
AiPromptStart(r) ==
    /\ requests[r].view = "ai_prompt"
    /\ At(r, "521")
    /\ threads' = Append(threads, NewThread("start_full_crawler", "507"))
    /\ Goto(r, "responded")
    /\ UNCHANGED crawler_running_event
    /\ ViewsUnchanged

\* start_full_crawler, lines 507-509.
FullCrawlerCheck(t) ==
    /\ threads[t].target = "start_full_crawler"
    /\ ThreadAt(t, "507")
    /\ ThreadGoto(t, IF crawler_running_event THEN "ended" ELSE "512")
    /\ UNCHANGED << crawler_running_event, requests >>
    /\ ViewsUnchanged
\* start_full_crawler, lines 511-514.
FullCrawlerSet(t) ==
    /\ threads[t].target = "start_full_crawler"
    /\ ThreadAt(t, "512")
    /\ crawler_running_event' = TRUE
    /\ ThreadGoto(t, "17")
    /\ UNCHANGED requests
    /\ ViewsUnchanged
\* start_full_crawler, lines 517-519.
FullCrawlerFinally(t) ==
    /\ threads[t].target = "start_full_crawler"
    /\ ThreadAt(t, "518")
    /\ crawler_running_event' = FALSE
    /\ ThreadGoto(t, "ended")
    /\ UNCHANGED requests
    /\ ViewsUnchanged

\* scheduler.run_workflow, lines 17-19, for a full crawl: it returns at once
\* if the event is cleared, else the crawl begins.
WorkflowBegins(t) ==
    /\ ThreadAt(t, "17")
    /\ ThreadGoto(t, IF crawler_running_event THEN "workflow" ELSE "312")
    /\ UNCHANGED << crawler_running_event, requests >>
    /\ ViewsUnchanged
\* scheduler.run_workflow, lines 21-62: the crawl ends, by itself or at one
\* of its checks of the event.
WorkflowEnds(t) ==
    /\ ThreadAt(t, "workflow")
    /\ ThreadGoto(t, "312")
    /\ UNCHANGED << crawler_running_event, requests >>
    /\ ViewsUnchanged
\* A faulty variant: a finally that leaves the event as it is.
WorkflowFinallyLeavesEvent(t) ==
    /\ ThreadAt(t, "312")
    /\ ThreadGoto(t, IF threads[t].target = "start_full_crawler"
                     THEN "518" ELSE "ended")
    /\ UNCHANGED << crawler_running_event, requests >>
    /\ ViewsUnchanged
\* run_workflow_with_stop, lines 311-315: the finally of a full crawl clears
\* the event.
WorkflowFinally(t) ==
    /\ ThreadAt(t, "312")
    /\ crawler_running_event' = FALSE
    /\ ThreadGoto(t, IF threads[t].target = "start_full_crawler"
                     THEN "518" ELSE "ended")
    /\ UNCHANGED requests
    /\ ViewsUnchanged

InitViews ==
    /\ CrawlAtRest
    /\ fetch = [pc |-> "idle"]
    /\ LearnerAtRest
    /\ WorkflowAtRest
    /\ ViewsAtRest

NextViews ==
    \/ \E view \in Views : Request(view)
    \/ \E r \in DOMAIN requests : RunCrawlerCheck(r)
    \/ \E r \in DOMAIN requests : RunCrawlerSet(r)
    \/ \E r \in DOMAIN requests : RunCrawlerStart(r)
    \/ \E r \in DOMAIN requests : StopCrawlerCheck(r)
    \/ \E r \in DOMAIN requests : StopCrawlerClear(r)
    \/ \E r \in DOMAIN requests : StopCrawlerJoin(r)
    \/ \E r \in DOMAIN requests : AiPromptSet(r)
    \/ \E r \in DOMAIN requests : AiPromptQuickScrape(r)
    \/ \E r \in DOMAIN requests : AiPromptClear(r)
    \/ \E r \in DOMAIN requests : AiPromptStart(r)
    \/ \E t \in DOMAIN threads : FullCrawlerCheck(t)
    \/ \E t \in DOMAIN threads : FullCrawlerSet(t)
    \/ \E t \in DOMAIN threads : FullCrawlerFinally(t)
    \/ \E t \in DOMAIN threads : WorkflowBegins(t)
    \/ \E t \in DOMAIN threads : WorkflowEnds(t)
    \/ \E t \in DOMAIN threads : WorkflowFinally(t)

SpecViews == InitViews /\ [][NextViews]_vars

\* The same with the requests served and the threads scheduled: a step of
\* a request that arrived or of a thread that was started is taken, and a
\* crawl that began ends. Nothing is assumed about the arrival of requests.
Served ==
    \/ \E r \in DOMAIN requests : RunCrawlerCheck(r)
    \/ \E r \in DOMAIN requests : RunCrawlerSet(r)
    \/ \E r \in DOMAIN requests : RunCrawlerStart(r)
    \/ \E r \in DOMAIN requests : StopCrawlerCheck(r)
    \/ \E r \in DOMAIN requests : StopCrawlerClear(r)
    \/ \E r \in DOMAIN requests : StopCrawlerJoin(r)
    \/ \E r \in DOMAIN requests : AiPromptSet(r)
    \/ \E r \in DOMAIN requests : AiPromptQuickScrape(r)
    \/ \E r \in DOMAIN requests : AiPromptClear(r)
    \/ \E r \in DOMAIN requests : AiPromptStart(r)
    \/ \E t \in DOMAIN threads : FullCrawlerCheck(t)
    \/ \E t \in DOMAIN threads : FullCrawlerSet(t)
    \/ \E t \in DOMAIN threads : FullCrawlerFinally(t)
    \/ \E t \in DOMAIN threads : WorkflowBegins(t)
    \/ \E t \in DOMAIN threads : WorkflowEnds(t)
    \/ \E t \in DOMAIN threads : WorkflowFinally(t)
SpecViewsFair == InitViews /\ [][NextViews]_vars /\ WF_vars(Served)

\* =============================================================== claims
Transient == {"timeout", "connection_error"}
Fetching == { t \in DOMAIN tasks : tasks[t].pc = "fetch" }
\* generate_urls returns at lines 221 or 228.
Aborts ==
    \/ domains_file \in {"missing", "empty"}
    \/ domains_file = "ok" /\ seeds_file = "missing"
MissingSource ==
    \/ domains_file = "missing"
    \/ domains_file = "ok" /\ seeds_file = "missing"

\* C1: in one run no URL is fetched more than once, whatever the
\* interleaving of the process_directory calls that share visited_urls.
C1_NoUrlFetchedTwice == \A u \in Urls : fetched[u] <= 1

\* C2: in every state of a run the number of URLs in visited_urls is at
\* most MAX_URLS.
C2_VisitedWithinMaxUrls == Cardinality(visited_urls) <= MAX_URLS

\* C3: a call that has passed the entry check (and so issues or has issued
\* its fetch) has a depth argument of at most MAX_DEPTH, and that argument is
\* the number of hops from its seed: 0 for a seed, the parent's plus 1 for a
\* child.
C3_FetchWithinMaxDepth ==
    \A t \in DOMAIN tasks :
        /\ tasks[t].depth = Len(t) - 1
        /\ tasks[t].pc \in {"add", "fetch", "submit", "join"} =>
              tasks[t].depth <= MAX_DEPTH
C3_Witness ==
    \E t \in DOMAIN tasks :
        tasks[t].pc = "fetch" /\ tasks[t].depth = MAX_DEPTH /\ MAX_DEPTH > 0

\* C4: at every moment the number of fetches open at once, over all seeds
\* and recursion levels of the run, is at most MAX_WORKERS.
C4_OpenFetchesWithinMaxWorkers == Cardinality(Fetching) <= MAX_WORKERS

\* C5: when every attempt for a URL fails with a timeout or a connection
\* error, fetch_url makes exactly 3 attempts and then returns (url, None)
\* without raising.
C5_ThreeAttemptsThenNone ==
    (fetch.pc \in {"returned", "raised"}
        /\ \A i \in 1 .. max_tries : fetch.script[i] \in Transient) =>
    (fetch.attempts = 3 /\ fetch.pc = "returned"
        /\ fetch.result = << fetch.url, None >>)

\* C6: whatever the step at which the process is killed, data/urls.txt holds
\* exactly its previous content or exactly the complete new content: the
\* sorted lines of merged_urls.
C6_FrontierOldOrNew ==
    \/ urls_txt = old_frontier
    \/ urls_txt = File(FrontierLines(merged_urls))
C6_Witness ==
    /\ gen_pc = "killed"
    /\ files[temp_file].exists
    /\ 0 < Len(files[temp_file].lines)
    /\ Len(files[temp_file].lines) < Cardinality(merged_urls)
    /\ urls_txt = old_frontier
    /\ old_frontier # File(FrontierLines(merged_urls))

\* C7: an exception of one call is caught where its parent joins: a call
\* ends by an exception only of its own (it has dispatched no child then),
\* a call that returned holds the results of all its children that returned,
\* what generate_urls merges is the categorization of every call that
\* returned, and that is what it writes.
AllOwn ==
    UNION { tasks[t].own[1] \cup tasks[t].own[2] :
              t \in { x \in DOMAIN tasks : tasks[x].pc = "done" } }
C7_FailureIsEmptyContribution ==
    /\ \A t \in DOMAIN tasks :
          /\ tasks[t].pc = "raised" => Children(t) = {}
          /\ tasks[t].pc = "done" =>
                \A c \in Children(t) :
                    tasks[c].pc = "done" =>
                        /\ tasks[c].result[1] \subseteq tasks[t].result[1]
                        /\ tasks[c].result[2] \subseteq tasks[t].result[2]
    /\ gen_pc = "open_tmp" => merged_urls = AllOwn
    /\ gen_pc = "returned" /\ ~Aborts =>
          urls_txt = File(FrontierLines(merged_urls))
C7_Witness ==
    /\ gen_pc = "returned"
    /\ "Error processing" \in log
    /\ "Error processing sublink" \in log
    /\ Len(urls_txt.lines) >= 2

\* C8: when the domain list is missing or yields no domain, or the seed list
\* is missing, no fetch is issued, no call is made, and data/urls.txt and
\* urls.tmp are left as they were.
C8_Precondition ==
    domains_file \in {"missing", "empty"} \/ seeds_file = "missing"
C8_MissingSourceNoFetchNoWrite ==
    C8_Precondition =>
        /\ \A u \in Urls : fetched[u] = 0
        /\ tasks = NoTasks
        /\ urls_txt = old_frontier
        /\ files[temp_file] = Absent
C8_Witness ==
    /\ gen_pc = "returned"
    /\ domains_file = "ok"
    /\ seeds_file = "missing"
    /\ urls_txt = File(OldFrontier)

\* C9, as claimed: a missing domain list or seed list ends generate_urls
\* with an error raised to its caller.
C9_MissingFileRaises ==
    (MissingSource /\ gen_pc \in {"returned", "raised"}) => gen_pc = "raised"
\* C9, amended: a missing domain list or seed list ends generate_urls with a
\* normal return after the error is logged; a load failure of another kind
\* (an unreadable file) is raised to the caller after it is logged.
UnreadableSource ==
    \/ domains_file = "unreadable"
    \/ domains_file = "ok" /\ seeds_file = "unreadable"
C9_MissingFileReturnsAfterLogging ==
    /\ (MissingSource /\ gen_pc \in {"returned", "raised"}) =>
          (gen_pc = "returned" /\ log # {}
              /\ "Critical error in URL generation" \notin log)
    /\ (UnreadableSource /\ gen_pc \in {"returned", "raised"}) =>
          (gen_pc = "raised" /\ "Critical error in URL generation" \in log)
C9_Witness ==
    /\ gen_pc = "returned"
    /\ domains_file = "missing"
    /\ "Aborting due to missing university domains" \in log

\* C10: once crawler_running_event is cleared, a call that starts returns
\* at once, without a fetch, and no call dispatches a child.
C10_StopHaltsTraversal ==
    [][~crawler_running_event =>
         /\ \A t \in DOMAIN tasks' : t \notin DOMAIN tasks => Len(t) = 1
         /\ \A t \in DOMAIN tasks \cap DOMAIN tasks' :
               (tasks[t].pc = "queued" /\ tasks'[t].pc # "queued") =>
                   tasks'[t].pc = "done"]_vars

\* C11: once elapsed exceeds TIMEOUT_SECONDS, a call that starts returns at
\* once, leaving visited_urls as it is and issuing no fetch, and no call
\* submits a further child; the calls already past the entry check go on
\* (their steps are not constrained).
C11_DeadlineHaltsNewWork ==
    [][elapsed > TIMEOUT_SECONDS =>
         /\ \A t \in DOMAIN tasks' : t \notin DOMAIN tasks => Len(t) = 1
         /\ \A t \in DOMAIN tasks \cap DOMAIN tasks' :
               (tasks[t].pc = "queued" /\ tasks'[t].pc # "queued") =>
                   /\ tasks'[t].pc = "done"
                   /\ tasks'[t].result = EmptyResult
                   /\ visited_urls' = visited_urls
                   /\ fetched' = fetched]_vars
\* A seed was stopped at entry by the deadline alone while the fetch that
\* another call issued before the deadline is still open.
C11_Witness ==
    /\ elapsed > TIMEOUT_SECONDS
    /\ \E t \in DOMAIN tasks :
          /\ tasks[t].pc = "done"
          /\ Url(t) \notin visited_urls
          /\ tasks[t].depth <= MAX_DEPTH
          /\ Cardinality(visited_urls) < MAX_URLS
    /\ \E t \in DOMAIN tasks : tasks[t].pc = "fetch"

\* C12: when the update_model calls of two threads have both returned, the
\* object and the files are as if the two calls had run one after the other
\* in some order: total_updates is 2 higher than before them, and the model
\* and the scaler are those of one of the two serial orders.
BothUpdated ==
    /\ tally.succeeded = 2
    /\ tally.failed = 0
    /\ \A c \in DOMAIN calls :
          calls[c].pc = "returned" /\ calls[c].op = "update_model"
C12_OverlappingUpdatesSerialized ==
    (DOMAIN calls = 1 .. 2 /\ BothUpdated) =>
        /\ online_learner.total_updates = tally.base.total_updates + 2
        /\ online_learner \in
              { update_model_alone(update_model_alone(tally.base, calls[1].args),
                                   calls[2].args),
                update_model_alone(update_model_alone(tally.base, calls[2].args),
                                   calls[1].args) }
        /\ models_dir = Saved(online_learner)

\* C13: with one caller, as long as no update_model call of the process has
\* raised, total_updates is the value the object was constructed with (0 for
\* a fresh model) plus the number of update_model calls that returned, plus
\* 1 while a call is between line 123 and its return; when a call has
\* returned total_updates is 1 more than when it was entered; and no step of
\* predict or update_model decreases total_updates.
PastIncrement ==
    { c \in DOMAIN calls : calls[c].pc \in {"dump_model", "dump_scaler", "dump_updates"} }
C13_CountsUpdates ==
    tally.failed = 0 =>
        /\ online_learner.total_updates =
              tally.base.total_updates + tally.succeeded + Cardinality(PastIncrement)
        /\ \A c \in DOMAIN calls :
              (calls[c].pc = "returned" /\ calls[c].op = "update_model") =>
                  online_learner.total_updates = calls[c].entry.self.total_updates + 1
C13_NeverDecreases ==
    Restart \/ online_learner'.total_updates >= online_learner.total_updates
C13_TotalUpdatesIsCallCount ==
    []C13_CountsUpdates /\ [][C13_NeverDecreases]_vars
\* Two identical calls (the second sample is scaled to zero, so coef_ stays
\* zero) on a fresh model have returned.
C13_Witness ==
    /\ tally.base = FreshLearner
    /\ tally.succeeded = MaxCalls
    /\ tally.failed = 0
    /\ calls[1].pc = "returned"
    /\ calls[1].op = "update_model"
    /\ online_learner.model.t_ = MaxCalls
    /\ online_learner.model.coef_ = Zeros
    /\ online_learner.total_updates = MaxCalls

\* C14: with one caller, when update_model has returned the three files of
\* models/ hold the model, the scaler and total_updates of the object, and
\* an object constructed from the files is equal to it.
Returned(c) == calls[c].pc = "returned" /\ calls[c].op = "update_model"
C14_ReturnMeansPersisted ==
    \A c \in DOMAIN calls :
        Returned(c) =>
            /\ models_dir = Saved(online_learner)
            /\ load_model(models_dir) = online_learner
\* update_model has returned in a process that had loaded an earlier update
\* from the files.
C14_Witness ==
    /\ Returned(1)
    /\ tally.base # FreshLearner
    /\ tally.base.total_updates = 1
    /\ online_learner.total_updates = 2

\* C17: a predict call on an object constructed without files, before any
\* update_model call, returns 0.5 whatever its arguments; once an
\* update_model call has returned, the model has coef_ and predict returns
\* predict_proba of the model for the features transformed by the scaler.
Predicted(c) == calls[c].pc = "returned" /\ calls[c].op = "predict"
C17_PredictBootstrapThenModel ==
    \A c \in DOMAIN calls :
        Predicted(c) =>
            /\ (tally.base = FreshLearner /\ tally.succeeded = 0 /\ tally.failed = 0)
                  => calls[c].prob = 5
            /\ tally.succeeded >= 1 =>
                  /\ HasCoef(online_learner.model)
                  /\ calls[c].prob =
                        predict_proba(online_learner.model,
                            scaler_transform(online_learner.scaler,
                                extract_features(calls[c].args.url,
                                                 calls[c].args.anchor_text,
                                                 calls[c].args.parent_relevance)))
\* predict has returned a probability other than 0.5 from a model whose
\* coefficients are not all zero.
C17_Witness ==
    /\ Predicted(1)
    /\ tally.succeeded >= 1
    /\ online_learner.model.coef_ # Zeros
    /\ calls[1].prob # 5

\* C15: when online_learner.update_model has raised, the run of the workflow
\* is not ended by it (the graph goes on to increment_index), and the
\* object and the files of models/ are as they were when the call was
\* entered.
C15_FailedUpdateIsNoOp ==
    \A c \in DOMAIN calls :
        (calls[c].op = "update_model" /\ calls[c].pc = "raised") =>
            /\ node # "raised"
            /\ online_learner = calls[c].entry.self
            /\ models_dir = calls[c].entry.dir

\* C16: in a full crawl, a URL that check_urls has selected while
\* total_updates >= 100 has a predicted probability above 0.5.
C16_TrainedModelGatesSelection ==
    (/\ node = "detect_type"
     /\ ~state.quick_scrape
     /\ online_learner.total_updates >= TrainedEnough) =>
        predict(online_learner, state.current_url, CurrentEntry[2], 10) > 5

\* C18: a fetch_url call whose request is answered with status 404 or with
\* another 4xx/5xx status ends after that one attempt, by returning
\* (url, None).
HttpErrorStatus == {"404", "http_error"}
C18_HttpErrorSingleAttempt ==
    (fetch.pc \in {"call", "returned", "raised"}
        /\ fetch.script[1] \in HttpErrorStatus) =>
    /\ fetch.pc = "call" => fetch.attempts = 0
    /\ fetch.pc # "call" =>
          /\ fetch.attempts = 1
          /\ fetch.pc = "returned"
          /\ fetch.result = << fetch.url, None >>
\* The call has returned after a 5xx answer although a second attempt would
\* have got the page.
C18_Witness ==
    /\ fetch.pc = "returned"
    /\ fetch.script[1] = "http_error"
    /\ fetch.script[2] = "ok"
    /\ fetch.attempts = 1
    /\ fetch.result = << fetch.url, None >>

\* C19: no URL is on two lines of data/urls.txt.
C19_OneLinePerUrl ==
    \A i, j \in 1 .. Len(urls_txt.lines) :
        i # j => urls_txt.lines[i].url # urls_txt.lines[j].url

\* C20: the data/urls.txt that a run has written has its lines in
\* non-decreasing order of URL, and is determined by merged_urls alone: its
\* lines are exactly the pairs of merged_urls, each once, in ascending order
\* of (url, anchor_text), of which there is one arrangement only.
FrontierWritten == gen_pc = "replaced" \/ (gen_pc = "returned" /\ ~Aborts)
PairOf(l) == << l.url, l.anchor_text >>
C20_FrontierSortedAndDetermined ==
    FrontierWritten =>
        LET lines == urls_txt.lines
        IN  /\ urls_txt.exists
            /\ \A i, j \in 1 .. Len(lines) :
                  i < j => /\ lines[i].url <= lines[j].url
                           /\ TupleLess(PairOf(lines[i]), PairOf(lines[j]))
            /\ { PairOf(lines[i]) : i \in 1 .. Len(lines) } = merged_urls
            /\ Len(lines) = Cardinality(merged_urls)
\* A run has written three lines, found on the pages of both seeds.
C20_Witness ==
    /\ gen_pc = "returned"
    /\ ~Aborts
    /\ Len(urls_txt.lines) >= 3
    /\ \E i, j \in 1 .. Len(urls_txt.lines) :
          urls_txt.lines[i].url # urls_txt.lines[j].url

\* C21: every (url, anchor_text) pair in the result of a call, in
\* merged_urls or on a line of the data/urls.txt that the run wrote is an
\* anchor of a page that a call of the run fetched, and its URL has scheme
\* http or https, a host, and a path that does not end, whatever the case,
\* in login, signup, auth, .pdf, .doc or .docx; and no call is made for a
\* link that fails this.
PathAllowed(u) ==
    /\ UrlParts(u).scheme \in {"http", "https"}
    /\ UrlParts(u).netloc # ""
    /\ Lower(UrlParts(u).path_end) \notin Blocklist
Extracted(p) ==
    /\ PathAllowed(p[1])
    /\ \E u \in visited_urls : p \in PageAnchors(u)
C21_FrontierLinksPassedValidity ==
    /\ \A t \in DOMAIN tasks :
          /\ \A p \in tasks[t].result[1] \cup tasks[t].result[2] : Extracted(p)
          /\ Len(t) > 1 => PathAllowed(Url(t))
    /\ Active => \A p \in merged_urls : Extracted(p)
    /\ FrontierWritten =>
          \A i \in 1 .. Len(urls_txt.lines) :
              PathAllowed(urls_txt.lines[i].url)

\* C22: with MAX_URLS = 1 and the single seed 1, whose page links to 3 and
\* to 6, only 1 is ever fetched, and once; no call is submitted for another
\* URL; the result of the seed's call is the categorization of the links of
\* its own page, and that is what is merged. Whatever MAX_URLS is, a child
\* is submitted only while visited_urls holds fewer than MAX_URLS.
OwnLinks(u) ==
    LET c == categorize_urls_with_semantics(extract_links(Text(u), u),
                                            university_domains)
    IN  c[1] \cup c[2]
C22_OnlySeed ==
    MAX_URLS = 1 =>
        /\ fetched[1] <= 1
        /\ \A u \in Urls \ {1} : fetched[u] = 0
        /\ DOMAIN tasks \subseteq { << 1 >> }
        /\ \A t \in DOMAIN tasks :
              tasks[t].result[1] \cup tasks[t].result[2] \in {{}, OwnLinks(1)}
        /\ gen_pc \in {"open_tmp", "write", "replaced"} =>
              merged_urls \in {{}, OwnLinks(1)}
C22_ChildNeedsBudget ==
    \A t \in DOMAIN tasks' :
        (t \notin DOMAIN tasks /\ Len(t) > 1) =>
            Cardinality(visited_urls) < MAX_URLS
C22_BudgetRecheckedPerChild == []C22_OnlySeed /\ [][C22_ChildNeedsBudget]_vars
\* The run has returned within the deadline, with depth left to recurse:
\* the two links of the seed's page are the frontier, and none was fetched.
C22_Witness ==
    /\ gen_pc = "returned"
    /\ ~Aborts
    /\ MAX_URLS = 1
    /\ MAX_DEPTH >= 1
    /\ elapsed <= TIMEOUT_SECONDS
    /\ fetched[1] = 1
    /\ visited_urls = {1}
    /\ Len(urls_txt.lines) = 2
    /\ fetched[3] = 0 /\ fetched[6] = 0

\* C23: while the traversal of a run goes on (from the submission of the
\* seeds to the join of their calls), every step leaves each URL of
\* visited_urls in it, so that its size never decreases.
Traversing == gen_pc \in {"submit", "join"}
C23_Grows ==
    (Traversing /\ Traversing') =>
        /\ visited_urls \subseteq visited_urls'
        /\ Cardinality(visited_urls') >= Cardinality(visited_urls)
C23_VisitedOnlyGrows == [][C23_Grows]_vars
\* Calls of both seeds and a child have added their URLs, and a child is
\* still at its fetch.
C23_Witness ==
    /\ gen_pc = "join"
    /\ Cardinality(visited_urls) >= 3
    /\ \E t \in DOMAIN tasks : Len(t) = 2 /\ tasks[t].pc = "fetch"

\* C24: when data/config.json is missing, the engine runs with a request
\* timeout of 15000 ms, MAX_WORKERS 5, MAX_DEPTH 4, MAX_URLS 30 and
\* TIMEOUT_SECONDS 3600.
C24_MissingConfigDefaults ==
    (Loaded /\ config_file = NoConfigFile) =>
        /\ request_timeout_ms = 15000
        /\ MAX_WORKERS = 5
        /\ MAX_DEPTH = 4
        /\ MAX_URLS = 30
        /\ TIMEOUT_SECONDS = 3600
C24_Witness ==
    /\ config_file = NoConfigFile
    /\ Loaded
    /\ DOMAIN config = {"REQUEST_TIMEOUT", "MAX_WORKERS", "MAX_DEPTH",
                        "MAX_URLS", "TIMEOUT_SECONDS"}

\* C25: in the per-page workflow every URL of the list that is not in the
\* database is selected once: whenever check_urls is about to run, or the
\* graph has ended, an update_model call was made for every entry before
\* state.index whose URL is not stored (each selected URL reaches the
\* update_model node, which calls online_learner.update_model for it).
Generated == domains_file = "ok" /\ seeds_file = "ok" /\ gen_pc = "returned"
Considered == 1 .. (IF state.index < Len(state.urls) THEN state.index
                                                      ELSE Len(state.urls))
NotStored == { i \in Considered : state.urls[i][1] \notin database }
C25_EveryNewUrlSelected ==
    (Generated /\ node \in {"check_urls", "END"} /\ tally.failed = 0) =>
        tally.started >= Cardinality(NotStored)

\* C27: in a step taken while crawler_running_event is cleared, the
\* workflow of a full crawl enters no update_model call.
C27_NoUpdateAfterStop ==
    [][(Generated /\ ~state.quick_scrape /\ ~crawler_running_event) =>
          tally'.started = tally.started]_vars

\* C29: a run of the graph whose update_model calls all returned ends at
\* END with status finished and every index of state.urls behind it,
\* whatever the length of the list.
Ended == node \in {"END", "raised", "GraphRecursionError"}
C29_EveryListRunsToItsEnd ==
    (Generated /\ Ended /\ tally.failed = 0) =>
        /\ node = "END"
        /\ state.status = "finished"
        /\ state.index >= Len(state.urls)

\* C30: when generate_urls has returned for a missing domain list or seed
\* list, the per-page workflow of the run is given no URL of the
\* data/urls.txt that an earlier run left.
C30_NoWorkflowOnStaleFrontier ==
    (Aborts /\ ~state.quick_scrape) => state.urls = << >>

\* The full crawls that run: the threads between the check of line 17 of
\* run_workflow and the end of run_workflow.
Crawling == { t \in DOMAIN threads : threads[t].pc = "workflow" }

\* C26: at most one full-crawl workflow thread is active at any time,
\* under any interleaving of run_crawler, stop_crawler and the background
\* start of ai_prompt.
C26_AtMostOneFullCrawl == Cardinality(Crawling) <= 1

\* C28: while a full crawl runs and crawler_running_event is set, no step
\* of an ai_prompt request (the set before its quick scrape, the quick
\* scrape, the clear after it) leaves the event cleared.
AiPromptSteps ==
    \E r \in DOMAIN requests :
        /\ requests[r].view = "ai_prompt"
        /\ requests'[r].pc # requests[r].pc
C28_QuickScrapeLeavesFullCrawlAlone ==
    [][(Crawling # {} /\ crawler_running_event /\ AiPromptSteps) =>
          crawler_running_event']_vars

OwnCategorization(u) ==
    categorize_urls_with_semantics(extract_links(Text(u), u), university_domains)
NoneRaised == \A t \in DOMAIN tasks : tasks[t].pc # "raised"
\* C32: when no process_directory call has raised, the pairs merged by
\* generate_urls are the union, over the calls whose fetch returned
\* content (each for a URL of visited_urls), of the categorization of that
\* page's links; the result of a call is its own categorization united with
\* the results of its children.
C32_MergedIsUnionOfCategorizations ==
    (gen_pc = "open_tmp" /\ NoneRaised) =>
        /\ \A t \in DOMAIN tasks :
              /\ tasks[t].own \in {EmptyResult, OwnCategorization(Url(t))}
              /\ tasks[t].own # EmptyResult => Url(t) \in visited_urls
              /\ \A i \in {1, 2} :
                    tasks[t].result[i] =
                        tasks[t].own[i] \cup
                        UNION { tasks[c].result[i] : c \in Children(t) }
        /\ merged_urls =
              UNION { tasks[t].own[1] \cup tasks[t].own[2] : t \in DOMAIN tasks }
\* A seed and a page under it have both contributed pairs, and another call
\* has returned without any.
C32_Witness ==
    /\ gen_pc = "open_tmp"
    /\ NoneRaised
    /\ \E t \in DOMAIN tasks :
          /\ Len(t) = 2
          /\ tasks[t].own # EmptyResult
          /\ tasks[Pool(t)].own # EmptyResult
          /\ ~(tasks[t].own[1] \cup tasks[t].own[2] \subseteq
                 tasks[Pool(t)].own[1] \cup tasks[Pool(t)].own[2])
    /\ \E t \in DOMAIN tasks : tasks[t].own = EmptyResult

\* The step in which the fetch of call t returns without content: the call
\* ends with nothing of its own, for a page whose links, had it been
\* read, would have given pairs.
ReturnsWithoutContent(t) ==
    /\ t \in DOMAIN tasks \cap DOMAIN tasks'
    /\ tasks[t].pc = "fetch"
    /\ tasks'[t].pc = "done"
    /\ tasks'[t].own = EmptyResult
    /\ OwnCategorization(Url(t)) # EmptyResult
\* C33: when the fetch of a URL returns without content, the call returns
\* the empty result and has no child, the URL is in visited_urls, and no
\* other call is about to fetch the same URL again.
C33_NoContentEndsTheBranch ==
    [][\A t \in DOMAIN tasks :
          ReturnsWithoutContent(t) =>
              /\ tasks'[t].result = EmptyResult
              /\ { c \in DOMAIN tasks' : Len(c) = Len(t) + 1 /\ Pool(c) = t } = {}
              /\ Url(t) \in visited_urls'
              /\ \A o \in DOMAIN tasks' :
                    Url(o) = Url(t) => tasks'[o].pc # "add"]_vars

\* The four stop conditions of spec 4.1, on the state in which a call is
\* entered.
StopsAtEntry(t) ==
    \/ tasks[t].depth > config.MAX_DEPTH
    \/ Url(t) \in visited_urls
    \/ Cardinality(visited_urls) >= config.MAX_URLS
    \/ elapsed > config.TIMEOUT_SECONDS
\* C34: a call that is entered while a stop condition holds returns in
\* that step with the empty result, visited_urls and the count of fetches
\* are as they were, and a call that has returned does nothing more.
C34_StoppedCallHasNoEffect ==
    [][\A t \in DOMAIN tasks \cap DOMAIN tasks' :
          /\ (tasks[t].pc = "queued" /\ tasks'[t].pc # "queued" /\ StopsAtEntry(t)) =>
                /\ tasks'[t].pc = "done"
                /\ tasks'[t].result = EmptyResult
                /\ visited_urls' = visited_urls
                /\ fetched' = fetched
          /\ tasks[t].pc = "done" => tasks'[t] = tasks[t]]_vars
\* A call below the seed has returned at entry for a URL that another call
\* had added and fetched: the URL was fetched once, and not by this call.
C34_Witness ==
    \E t, o \in DOMAIN tasks :
        /\ t # o
        /\ Url(t) = Url(o)
        /\ tasks[t].pc = "done"
        /\ tasks[t].own = EmptyResult
        /\ Children(t) = {}
        /\ tasks[o].own # EmptyResult
        /\ fetched[Url(t)] = 1
        /\ Url(t) \in visited_urls

\* C35: of the links given to categorize_urls_with_semantics, the lab URLs
\* are those on a university domain whose lab similarity is above the
\* startup similarity and above 0.5, the startup URLs those whose startup
\* similarity is above the lab similarity and above 0.5; no link is in both
\* sets, and a link whose context has a zero vector is in neither.
C35_CategorizeByLargerSimilarity ==
    categorized.pc = "returned" =>
        LET lab_urls == categorized.result[1]
            startup_urls == categorized.result[2]
        IN  /\ lab_urls \cup startup_urls \subseteq categorized.links
            /\ lab_urls \cap startup_urls = {}
            /\ \A l \in categorized.links :
                  LET c == Context(l)
                  IN  /\ l \in lab_urls <=>
                            /\ HasVector(c)
                            /\ is_university_domain(l[1], categorized.domains)
                            /\ lab_similarity(c) > startup_similarity(c)
                            /\ lab_similarity(c) > 5
                      /\ l \in startup_urls <=>
                            /\ HasVector(c)
                            /\ startup_similarity(c) > lab_similarity(c)
                            /\ startup_similarity(c) > 5
\* A call has returned a lab URL or a startup URL, and another of its
\* links, tied above the threshold, is in neither set.
C35_Witness ==
    /\ categorized.pc = "returned"
    /\ categorized.result # EmptyResult
    /\ \E l \in categorized.links :
          /\ HasVector(Context(l))
          /\ lab_similarity(Context(l)) = startup_similarity(Context(l))
          /\ lab_similarity(Context(l)) > 5
          /\ l \notin categorized.result[1] \cup categorized.result[2]

\* The step is the start of a new process, which loads the files.
Restarted ==
    /\ online_learner' = load_model(models_dir)
    /\ calls' = [c \in DOMAIN calls |-> IdleCall]
\* C36: within a process the scaler changes only in the partial_fit of
\* an update_model call that found it unfitted; every other step of
\* update_model and every predict leaves it as it is.
C36_ScalerFittedOnce ==
    [][online_learner'.scaler # online_learner.scaler =>
          \/ Restarted
          \/ /\ ~HasMean(online_learner.scaler)
             /\ \E c \in DOMAIN calls :
                   /\ calls[c].op = "update_model"
                   /\ calls[c].pc = "scaler_fit"
                   /\ calls'[c].pc = "fit"
                   /\ online_learner'.scaler =
                         scaler_partial_fit(online_learner.scaler,
                                            calls[c].features)]_vars
\* Two update_model calls have returned in a process that started without
\* files, and the scaler has seen the first sample only.
C36_Witness ==
    /\ tally.base = FreshLearner
    /\ tally.succeeded = 2
    /\ online_learner.model.t_ = 2
    /\ online_learner.scaler.n_samples_seen_ = 1

\* C37: in every state, what a process started now would load from the
\* files of models/ is consistent: total_updates is the number of samples
\* the loaded classifier was fitted on, and a fitted classifier comes with
\* a fitted scaler.
C37_PersistedStateConsistent ==
    LET loaded == load_model(models_dir)
    IN  /\ loaded.total_updates = loaded.model.t_
        /\ HasCoef(loaded.model) => HasMean(loaded.scaler)

\* C38: with the threads scheduled and every fetch returning, a call of
\* generate_urls that has read its seeds ends, unless the process is
\* killed, with the frontier written from the merged results; and when the
\* join over the seeds completes no call is left queued or running.
ReturnedWithFrontier ==
    /\ gen_pc = "returned"
    /\ urls_txt = File(FrontierLines(merged_urls))
C38_GenerateUrlsTerminates ==
    /\ (gen_pc = "submit") ~> (ReturnedWithFrontier \/ gen_pc = "killed")
    /\ [](gen_pc = "open_tmp" => \A t \in DOMAIN tasks : Finished(t))
\* The frontier is written after a crawl with one worker per pool in which
\* calls ran two levels below a seed and pages of the ring were met again.
C38_Witness ==
    /\ ReturnedWithFrontier
    /\ MAX_WORKERS = 1
    /\ Cardinality(visited_urls) >= 3
    /\ merged_urls # {}

\* A crawl is in progress from the moment its starter has set the event
\* (line 260 of run_crawler, line 513 of start_full_crawler) until the end
\* of its thread; a quick scrape from the set of line 478 until the clear
\* of line 484.
CrawlInProgress ==
    \/ \E r \in DOMAIN requests : requests[r].pc = "264"
    \/ \E t \in DOMAIN threads : threads[t].pc \in {"17", "workflow", "312", "518"}
QuickScrapeInProgress ==
    \E r \in DOMAIN requests : requests[r].pc \in {"480", "483"}
\* C39: whenever no crawl and no quick scrape is in progress the event is
\* cleared; and, with the requests served and the threads scheduled, an
\* event that is set is cleared later, so that run_crawler is not rejected
\* for ever.
C39_EventClearedWhenNothingRuns ==
    /\ []((~CrawlInProgress /\ ~QuickScrapeInProgress) => ~crawler_running_event)
    /\ crawler_running_event ~> ~crawler_running_event
\* A crawl of run_crawler and a full crawl of ai_prompt have ended, a
\* run_crawler request was rejected in between, and the event is cleared.
C39_Witness ==
    /\ ~CrawlInProgress
    /\ ~QuickScrapeInProgress
    /\ ~crawler_running_event
    /\ \E t \in DOMAIN threads :
          threads[t].target = "run_workflow_with_stop" /\ threads[t].pc = "ended"
    /\ \E t \in DOMAIN threads :
          threads[t].target = "start_full_crawler" /\ threads[t].pc = "ended"
    /\ \E r \in DOMAIN requests : requests[r].pc = "already_running"

====
